---- MODULE Spec2Model ----
(***************************************************************************)
(* The list handlers of the e-commerce backend (orders, customers,         *)
(* products): pagination normalizer, sort resolver, filter builder, search *)
(* sanitizer and the two reads (page, count) of the list query executor.   *)
(*                                                                         *)
(* The repository holds several versions of the order controller:          *)
(*   getOrders              src/backend/src/controllers/order.ts:10        *)
(*   getOrders_473          src/backend/src/controllers/order.ts:473       *)
(*   getOrders_part001      src/unnamed/part_001:11                        *)
(*   getOrdersCurrentUser          order.ts:134                            *)
(*   getOrdersCurrentUser_639      order.ts:639                            *)
(*   getOrdersCurrentUser_part001  part_001:197                            *)
(* Every version is modelled; a statement about "getOrders" is a statement *)
(* about each of them.                                                     *)
(*                                                                         *)
(* Strings that the code parses, escapes or matches are sequences of       *)
(* one-character strings; strings that are only compared for equality      *)
(* (sortField, sortOrder, status, date texts) are TLA+ strings.            *)
(***************************************************************************)
EXTENDS Integers, Sequences, FiniteSets, TLC

(***************************************************************************)
(* Bounds of the model.                                                    *)
(***************************************************************************)
\* longest raw `page` text enumerated
MaxPageLen == 2
\* longest raw `limit` text enumerated
MaxLimitLen == 3
\* longest run of one character enumerated as a `search` text
MaxSearchRun == 101
\* largest number of documents in the Product collection
MaxProducts == 12
\* most writes of other requests interleaved with one list request
MaxWrites == 1

\* the most orders the Order collection holds
MaxOrders == 4

(***************************************************************************)
(* JavaScript values.                                                      *)
(***************************************************************************)
\* a number or NaN
Num(n) == [nan |-> FALSE, v |-> n]
NaN == [nan |-> TRUE, v |-> 0]

\* a query parameter as Express hands it over (qs parser): undefined, a
\* string, an array of strings (?p=a&p=b) or an object (?p[k]=a)
Absent == [k |-> "absent", s |-> <<>>, a |-> <<>>]
Str(s) == [k |-> "str", s |-> s, a |-> <<>>]
Arr(a) == [k |-> "arr", s |-> <<>>, a |-> a]
Obj == [k |-> "obj", s |-> <<>>, a |-> <<>>]

\* the same for a parameter whose text is only ever compared: t is the text
\* (of the single element, for an array)
NoTok == [k |-> "absent", t |-> ""]
Tok(t) == [k |-> "str", t |-> t]
TokArr(t) == [k |-> "arr", t |-> t]
TokObj == [k |-> "obj", t |-> ""]

\* ToBoolean: undefined and "" are falsy, arrays and objects are truthy
Truthy(x) == CASE x.k = "absent" -> FALSE
               [] x.k = "str" -> x.s # <<>>
               [] OTHER -> TRUE

TokTruthy(x) == CASE x.k = "absent" -> FALSE
                  [] x.k = "str" -> x.t # ""
                  [] OTHER -> TRUE

ObjectString == <<"[","o","b","j","e","c","t"," ","O","b","j","e","c","t","]">>

RECURSIVE Join(_)
\* Array.prototype.toString: the elements joined by ","
Join(a) == IF a = <<>> THEN <<>>
           ELSE IF Len(a) = 1 THEN a[1]
           ELSE a[1] \o <<",">> \o Join(Tail(a))

\* StringOf of a defined query value
StringOf(x) == CASE x.k = "str" -> x.s
                 [] x.k = "arr" -> Join(x.a)
                 [] OTHER -> ObjectString

DecDigits == <<"0","1","2","3","4","5","6","7","8","9">>
HexDigits == DecDigits \o <<"a","b","c","d","e","f">>

\* the value of digit c in the digit list ds, or -1
DigitVal(c, ds) == IF \E i \in 1..Len(ds) : ds[i] = c
                   THEN (CHOOSE i \in 1..Len(ds) : ds[i] = c) - 1
                   ELSE -1

IsWhite(c) == c = " "

RECURSIVE TrimLeft(_)
TrimLeft(s) == IF s # <<>> /\ IsWhite(s[1]) THEN TrimLeft(Tail(s)) ELSE s

RECURSIVE TrimRight(_)
TrimRight(s) == IF s # <<>> /\ IsWhite(s[Len(s)])
                THEN TrimRight(SubSeq(s, 1, Len(s) - 1)) ELSE s

RECURSIVE DigitPrefix(_, _, _)
\* value of the longest prefix of s made of digits of ds, from accumulator
\* acc; -1 when s starts with no digit (and acc is -1)
DigitPrefix(s, ds, acc) ==
    IF s = <<>> \/ DigitVal(s[1], ds) < 0 THEN acc
    ELSE DigitPrefix(Tail(s), ds,
                     (IF acc < 0 THEN 0 ELSE acc) * Len(ds) + DigitVal(s[1], ds))

\* every character of s is a digit of ds, and s is not empty
AllDigits(s, ds) == s # <<>> /\ \A i \in 1..Len(s) : DigitVal(s[i], ds) >= 0

HasHexPrefix(s) == Len(s) >= 2 /\ s[1] = "0" /\ s[2] \in {"x", "X"}

\* parseInt(string, radix) of ECMAScript for radix 10 and for no radix
\* (radix = 0: a 0x prefix selects base 16)
parseIntStr(str, radix) ==
    LET t == TrimLeft(str)
        neg == t # <<>> /\ t[1] = "-"
        u == IF t # <<>> /\ t[1] \in {"-", "+"} THEN Tail(t) ELSE t
        hex == radix = 0 /\ HasHexPrefix(u)
        z == IF hex THEN SubSeq(u, 3, Len(u)) ELSE u
        m == DigitPrefix(z, IF hex THEN HexDigits ELSE DecDigits, -1)
    IN IF m < 0 THEN NaN ELSE Num(IF neg THEN -m ELSE m)

\* parseInt(x as string, radix) where x is the destructured parameter with
\* its default: an absent parameter is the number `def`
parseInt(x, radix, def) ==
    IF x.k = "absent" THEN Num(def) ELSE parseIntStr(StringOf(x), radix)

\* Number(string): whitespace is trimmed, "" is 0, then a signed decimal
\* integer or an unsigned 0x literal; anything else is NaN. (Fractions,
\* exponents, Infinity, 0b and 0o literals are outside the enumerated texts.)
NumberStr(str) ==
    LET t == TrimRight(TrimLeft(str))
        signed == t # <<>> /\ t[1] \in {"-", "+"}
        u == IF signed THEN Tail(t) ELSE t
    IN IF t = <<>> THEN Num(0)
       ELSE IF AllDigits(u, DecDigits)
            THEN Num(IF t[1] = "-" THEN -DigitPrefix(u, DecDigits, -1)
                     ELSE DigitPrefix(u, DecDigits, -1))
       ELSE IF ~signed /\ HasHexPrefix(t) /\ AllDigits(SubSeq(t, 3, Len(t)), HexDigits)
            THEN Num(DigitPrefix(SubSeq(t, 3, Len(t)), HexDigits, -1))
       ELSE NaN

\* Number(x) of a defined query value
Number(x) == NumberStr(StringOf(x))

Max(a, b) == IF a >= b THEN a ELSE b
Min(a, b) == IF a <= b THEN a ELSE b

\* x || d for a number x: NaN and 0 are falsy
OrElse(x, d) == IF x.nan \/ x.v = 0 THEN d ELSE x.v

\* a faulty variant of CeilDiv: Math.floor(a / b)
CeilDiv_Floor(a, b) == a \div b

\* Math.ceil(a / b) for a >= 0, b > 0
CeilDiv(a, b) == (a + b - 1) \div b


(***************************************************************************)
(* Pagination normalizer.                                                  *)
(***************************************************************************)
\* a faulty variant of NormalizePage: parseInt(page as string, radix) || 1
NormalizePage_NoFloor(page, radix) == OrElse(parseInt(page, radix, 1), 1)

\* Math.max(1, parseInt(page as string, radix) || 1)
NormalizePage(page, radix) == Max(1, OrElse(parseInt(page, radix, 1), 1))

\* a faulty variant of NormalizeLimit: Math.max(1, parseInt(limit as string, radix) || def)
NormalizeLimit_NoCap(limit, radix, def, max) ==
    Max(1, OrElse(parseInt(limit, radix, def), def))

\* a faulty variant of NormalizeLimit:
\* Math.min(max, Math.max(1, parseInt(limit as string, radix) || 1))
NormalizeLimit_DefaultOne(limit, radix, def, max) ==
    Min(max, Max(1, OrElse(parseInt(limit, radix, def), 1)))

\* Math.min(max, Math.max(1, parseInt(limit as string, radix) || def))
NormalizeLimit(limit, radix, def, max) ==
    Min(max, Max(1, OrElse(parseInt(limit, radix, def), def)))

(***************************************************************************)
(* Sort resolver. A sort specification is a function from its keys to the  *)
(* direction, 1 or -1.                                                     *)
(***************************************************************************)
DefaultSort == "createdAt" :> -1

\* a faulty variant of ResolveSort: if (sortField && sortOrder), no allow-list
ResolveSort_AnyField(sortField, sortOrder, allowed) ==
    LET sf == IF sortField.k = "absent" THEN Tok("createdAt") ELSE sortField
        so == IF sortOrder.k = "absent" THEN Tok("desc") ELSE sortOrder
    IN IF TokTruthy(sf) /\ sf.k = "str" /\ TokTruthy(so)
       THEN sf.t :> (IF so = Tok("desc") THEN -1 ELSE 1)
       ELSE DefaultSort

\* a faulty variant of ResolveSort: sortOrder === 'asc' ? 1 : -1
ResolveSort_AscOnly(sortField, sortOrder, allowed) ==
    LET sf == IF sortField.k = "absent" THEN Tok("createdAt") ELSE sortField
        so == IF sortOrder.k = "absent" THEN Tok("desc") ELSE sortOrder
    IN IF TokTruthy(sf) /\ sf.k = "str" /\ sf.t \in allowed /\ TokTruthy(so)
       THEN sf.t :> (IF so = Tok("asc") THEN 1 ELSE -1)
       ELSE DefaultSort

\* const { sortField = 'createdAt', sortOrder = 'desc' } = req.query
\* if (sortField && allowed.includes(sortField) && sortOrder)
\*     sort[sortField] = sortOrder === 'desc' ? -1 : 1
\* else sort.createdAt = -1
ResolveSort(sortField, sortOrder, allowed) ==
    LET sf == IF sortField.k = "absent" THEN Tok("createdAt") ELSE sortField
        so == IF sortOrder.k = "absent" THEN Tok("desc") ELSE sortOrder
    IN IF TokTruthy(sf) /\ sf.k = "str" /\ sf.t \in allowed /\ TokTruthy(so)
       THEN sf.t :> (IF so = Tok("desc") THEN -1 ELSE 1)
       ELSE DefaultSort

(***************************************************************************)
(* Search sanitizer.                                                       *)
(***************************************************************************)
\* the characters escape-string-regexp prefixes with a backslash
RegexSpecial == {"|", "\\", "{", "}", "(", ")", "[", "]", "^", "$", "+", "*", "?", "."}

\* what the two replacements make of one character
EscapedChar(c) == IF c \in RegexSpecial THEN <<"\\", c>>
                  ELSE IF c = "-" THEN <<"\\", "x", "2", "d">>
                  ELSE <<c>>

RECURSIVE escapeStringRegexp(_)
\* string.replace(/[|\\{}()[\]^$+*?.]/g, '\\$&').replace(/-/g, '\\x2d'):
\* every character is replaced on its own, so the string is escaped by halves
escapeStringRegexp(s) ==
    IF s = <<>> THEN <<>>
    ELSE IF Len(s) = 1 THEN EscapedChar(s[1])
    ELSE LET half == Len(s) \div 2
         IN escapeStringRegexp(SubSeq(s, 1, half))
            \o escapeStringRegexp(SubSeq(s, half + 1, Len(s)))

\* safeSearch.length > 100
SearchMaxLen == 100

TooLong(safeSearch) == Len(safeSearch) > SearchMaxLen

\* the alternatives of dangerousPatterns
DangerousTokens ==
    { <<"$","w","h","e","r","e">>,
      <<"$","e","q">>,
      <<"$","n","e">>,
      <<"$","g","t">>,
      <<"$","g","t","e">>,
      <<"$","l","t">>,
      <<"$","l","t","e">>,
      <<"$","i","n">>,
      <<"$","n","i","n">>,
      <<"$","o","r">>,
      <<"$","a","n","d">>,
      <<"$","n","o","t">>,
      <<"$","n","o","r">>,
      <<"$","e","x","i","s","t","s">>,
      <<"$","t","y","p","e">>,
      <<"$","m","o","d">>,
      <<"$","r","e","g","e","x">>,
      <<"$","t","e","x","t">>,
      <<"$","g","e","o","W","i","t","h","i","n">>,
      <<"$","g","e","o","I","n","t","e","r","s","e","c","t","s">>,
      <<"$","n","e","a","r">>,
      <<"$","n","e","a","r","S","p","h","e","r","e">>,
      <<"$","a","l","l">>,
      <<"$","e","l","e","m","M","a","t","c","h">>,
      <<"$","s","i","z","e">>,
      <<"$","b","i","t","s","A","l","l","C","l","e","a","r">>,
      <<"$","b","i","t","s","A","l","l","S","e","t">>,
      <<"$","b","i","t","s","A","n","y","C","l","e","a","r">>,
      <<"$","b","i","t","s","A","n","y","S","e","t">>,
      <<"$","c","o","m","m","e","n","t">>,
      <<"$","m","e","t","a">>,
      <<"$","s","l","i","c","e">>,
      <<"$","n","a","t","u","r","a","l">> }

\* t occurs in s
Contains(s, t) ==
    \E i \in 1..(Len(s) - Len(t) + 1) : SubSeq(s, i, i + Len(t) - 1) = t

\* dangerousPatterns.test(search): an unanchored, case-sensitive alternation
dangerousPatterns(search) == \E t \in DangerousTokens : Contains(search, t)


(***************************************************************************)
(* Filter expressions. A filter is a sequence of conditions; a condition   *)
(* {field: {op: value}} carries its value in the slot of its kind:         *)
(*   num   n           a number                                            *)
(*   date  n, m        day number and millisecond of the day (UTC)         *)
(*   str   t           a string                                            *)
(*   id    n           a document id                                       *)
(*   regex re          new RegExp(re, 'i')                                 *)
(*   ids   ids         {$in: ids}                                          *)
(*   or    sub         {$or: sub}                                          *)
(***************************************************************************)
Cond(field, op, kind) ==
    [field |-> field, op |-> op, kind |-> kind, n |-> 0, m |-> 0, t |-> "",
     re |-> <<>>, ids |-> <<>>, sub |-> <<>>]

CNum(field, op, n) == [Cond(field, op, "num") EXCEPT !.n = n]
CDate(field, op, date) == [Cond(field, op, "date") EXCEPT !.n = date.d, !.m = date.ms]
CStr(field, t) == [Cond(field, "$eq", "str") EXCEPT !.t = t]
CId(field, id) == [Cond(field, "$eq", "id") EXCEPT !.n = id]
CRegex(field, re) == [Cond(field, "$regex", "regex") EXCEPT !.re = re]
CIn(field, ids) == [Cond(field, "$in", "ids") EXCEPT !.ids = ids]
COr(sub) == [Cond("$or", "$or", "or") EXCEPT !.sub = sub]

\* filters.field = { op: value }: whatever the field held is replaced
Assign(filters, c) ==
    SelectSeq(filters, LAMBDA x : x.field # c.field) \o <<c>>

\* filters.field = { ...filters.field, op: value }
Spread(filters, c) ==
    SelectSeq(filters, LAMBDA x : ~(x.field = c.field /\ x.op = c.op)) \o <<c>>

(***************************************************************************)
(* Dates. An instant is [d, ms]: the day number (day 0 is 2024-07-01) and  *)
(* the millisecond of that day, in UTC. tz is the server's offset from UTC *)
(* in hours (local time = UTC + tz).                                       *)
(***************************************************************************)
DayMs == 24 * 3600000
HourMs == 3600000 * 1

InvalidDate == [nan |-> TRUE, d |-> 0, ms |-> 0]
Date(d, ms) == [nan |-> FALSE, d |-> d, ms |-> ms]

\* Date.parse of the date texts the model sends
DateParse(t) == CASE t = "2024-07-01" -> Date(0, 0)
                  [] t = "2024-07-15T12:00:00Z" -> Date(14, 12 * HourMs)
                  [] t = "2024-08-01" -> Date(31, 0)
                  [] OTHER -> InvalidDate

\* new Date(x as string) of a truthy query value: an array is converted by
\* its toString (its single element), an object is "[object Object]"
NewDate(x) == IF x.k \in {"str", "arr"} THEN DateParse(x.t) ELSE InvalidDate

\* endOfDay = new Date(date); endOfDay.setHours(23, 59, 59, 999): the last
\* millisecond of date's local day
EndOfDay(date, tz) ==
    LET localMs == date.ms + tz * HourMs
        ld == IF localMs >= DayMs THEN date.d + 1
              ELSE IF localMs < 0 THEN date.d - 1 ELSE date.d
        utcMs == (DayMs - 1) - tz * HourMs
    IN IF utcMs >= DayMs THEN Date(ld + 1, utcMs - DayMs)
       ELSE IF utcMs < 0 THEN Date(ld - 1, utcMs + DayMs)
       ELSE Date(ld, utcMs)

(***************************************************************************)
(* Callers and requests.                                                   *)
(***************************************************************************)
\* res.locals.user as the auth middleware leaves it
NoUser == [present |-> FALSE, id |-> 0, roles |-> {}]
User(id, roles) == [present |-> TRUE, id |-> id, roles |-> roles]

\* !user || !user.roles.includes('admin')
NotAdmin(user) == ~user.present \/ "admin" \notin user.roles

\* req.query with every parameter absent
EmptyQuery ==
    [page |-> Absent, limit |-> Absent, sortField |-> NoTok, sortOrder |-> NoTok,
     status |-> NoTok, totalAmountFrom |-> Absent, totalAmountTo |-> Absent,
     orderDateFrom |-> NoTok, orderDateTo |-> NoTok,
     registrationDateFrom |-> NoTok, registrationDateTo |-> NoTok,
     lastOrderDateFrom |-> NoTok, lastOrderDateTo |-> NoTok,
     orderCountFrom |-> Absent, orderCountTo |-> Absent, search |-> Absent]

(***************************************************************************)
(* What a handler has decided when it reaches its first await (or returns):*)
(*   next     "done" (it has answered), or the await it stops at           *)
(*   status   the HTTP status answered; error the error passed to next()   *)
(*   filters  the filter of the count read (and of find)                   *)
(*   match    the $match stages of the aggregate pipeline after the lookups*)
(***************************************************************************)
Plan0 ==
    [next |-> "page", status |-> 0, error |-> "", pageNum |-> 1, limitNum |-> 1,
     filters |-> <<>>, match |-> <<>>, sort |-> DefaultSort, safeSearch |-> <<>>,
     searchNumber |-> NaN]

\* res.status(code).json(...) without a query
Answer(code) == [Plan0 EXCEPT !.next = "done", !.status = code]

\* statusCode of the error classes, applied by the error-handler middleware;
\* any other error is answered 500
ErrorStatus(error) == CASE error = "BadRequestError" -> 400
                        [] error = "UnauthorizedError" -> 401
                        [] error = "ForbiddenError" -> 403
                        [] error = "NotFoundError" -> 404
                        [] OTHER -> 500

\* return next(new <error>(...)), or a throw caught by catch (error) { next(error) }
Fail(error) == [Plan0 EXCEPT !.next = "done", !.status = ErrorStatus(error),
                             !.error = error]

allowedStatuses == {"pending", "processing", "shipped", "delivered", "cancelled"}


(***************************************************************************)
(* Filter builder steps shared by the handlers (the code repeats them).    *)
(***************************************************************************)
\* a faulty variant of WithStatus: if (status && typeof status === 'string')
\*     filters.status = status
WithStatus_AnyString(filters, status) ==
    IF TokTruthy(status) /\ status.k = "str"
    THEN Assign(filters, CStr("status", status.t))
    ELSE filters

\* if (status && typeof status === 'string' && allowedStatuses.includes(status))
\*     filters.status = status
WithStatus(filters, status) ==
    IF TokTruthy(status) /\ status.k = "str" /\ status.t \in allowedStatuses
    THEN Assign(filters, CStr("status", status.t))
    ELSE filters

\* a faulty variant of WithBound: if (!isNaN(n)), without n >= 0
WithBound_AnySign(filters, field, op, raw) ==
    IF Truthy(raw) /\ ~Number(raw).nan
    THEN Spread(filters, CNum(field, op, Number(raw).v))
    ELSE filters

\* if (raw) { const n = Number(raw); if (!isNaN(n) && n >= 0) filters.field = {...filters.field, op: n} }
WithBound(filters, field, op, raw) ==
    IF Truthy(raw) /\ ~Number(raw).nan /\ Number(raw).v >= 0
    THEN Spread(filters, CNum(field, op, Number(raw).v))
    ELSE filters

\* the same with filters.field = { op: n }: the other bound of the field is dropped
WithBoundAssign(filters, field, op, raw) ==
    IF Truthy(raw) /\ ~Number(raw).nan /\ Number(raw).v >= 0
    THEN Assign(filters, CNum(field, op, Number(raw).v))
    ELSE filters

\* if (raw) { const n = Number(raw); if (!isNaN(n)) filters.field = {...filters.field, op: Math.max(0, n)} }
WithBoundClamped(filters, field, op, raw) ==
    IF Truthy(raw) /\ ~Number(raw).nan
    THEN Spread(filters, CNum(field, op, Max(0, Number(raw).v)))
    ELSE filters

\* a faulty variant of WithDateFrom: no test of date.getTime()
WithDateFrom_Unchecked(filters, field, raw) ==
    IF TokTruthy(raw)
    THEN Spread(filters, CDate(field, "$gte", NewDate(raw)))
    ELSE filters

\* if (raw) { const date = new Date(raw); if (!isNaN(date.getTime())) filters.field = {...filters.field, $gte: date} }
WithDateFrom(filters, field, raw) ==
    IF TokTruthy(raw) /\ ~NewDate(raw).nan
    THEN Spread(filters, CDate(field, "$gte", NewDate(raw)))
    ELSE filters

\* ... filters.field = {...filters.field, $lte: endOfDay}
WithDateTo(filters, field, raw, tz) ==
    IF TokTruthy(raw) /\ ~NewDate(raw).nan
    THEN Spread(filters, CDate(field, "$lte", EndOfDay(NewDate(raw), tz)))
    ELSE filters

(***************************************************************************)
(* getOrders, src/backend/src/controllers/order.ts:10.                     *)
(***************************************************************************)
getOrders(user, q, tz) ==
    LET pageNum == NormalizePage(q.page, 10)
        limitNum == NormalizeLimit(q.limit, 10, 10, 10)
        f1 == WithStatus(<<>>, q.status)
        f2 == WithBoundAssign(f1, "totalAmount", "$gte", q.totalAmountFrom)
        f3 == WithBoundAssign(f2, "totalAmount", "$lte", q.totalAmountTo)
        f4 == IF TokTruthy(q.orderDateFrom) /\ ~NewDate(q.orderDateFrom).nan
              THEN Assign(f3, CDate("createdAt", "$gte", NewDate(q.orderDateFrom)))
              ELSE f3
        f5 == IF TokTruthy(q.orderDateTo) /\ ~NewDate(q.orderDateTo).nan
              THEN Assign(f4, CDate("createdAt", "$lte",
                                    EndOfDay(NewDate(q.orderDateTo), tz)))
              ELSE f4
        searching == Truthy(q.search) /\ q.search.k = "str"
        safeSearch == escapeStringRegexp(q.search.s)
        searchNumber == Number(q.search)
        f6 == IF searching /\ ~searchNumber.nan /\ searchNumber.v > 0
              THEN Assign(f5, CNum("orderNumber", "$eq", searchNumber.v))
              ELSE f5
    IN IF NotAdmin(user) THEN Answer(403)
       ELSE IF searching /\ TooLong(safeSearch) THEN Fail("BadRequestError")
       ELSE [Plan0 EXCEPT !.next = "page", !.pageNum = pageNum,
                          !.limitNum = limitNum, !.filters = f6,
                          !.sort = ResolveSort(q.sortField, q.sortOrder,
                              {"createdAt", "totalAmount", "orderNumber", "status"}),
                          !.safeSearch = IF searching THEN safeSearch ELSE <<>>,
                          !.searchNumber = IF searching THEN searchNumber ELSE NaN]

(***************************************************************************)
(* getOrders, src/backend/src/controllers/order.ts:473.                    *)
(***************************************************************************)
getOrders_473(user, q, tz) ==
    LET pageNum == NormalizePage(q.page, 0)
        limitNum == NormalizeLimit(q.limit, 0, 10, 100)
        f1 == WithStatus(<<>>, q.status)
        f2 == WithBoundClamped(f1, "totalAmount", "$gte", q.totalAmountFrom)
        f3 == WithBoundClamped(f2, "totalAmount", "$lte", q.totalAmountTo)
        f4 == WithDateFrom(f3, "createdAt", q.orderDateFrom)
        f5 == IF TokTruthy(q.orderDateTo) /\ ~NewDate(q.orderDateTo).nan
              THEN Spread(f4, CDate("createdAt", "$lte", NewDate(q.orderDateTo)))
              ELSE f4
        searching == Truthy(q.search)
        safeSearch == escapeStringRegexp(q.search.s)
        searchNumber == Number(q.search)
        searchConditions ==
            <<CRegex("products.title", safeSearch)>> \o
            (IF ~searchNumber.nan
             THEN <<CNum("orderNumber", "$eq", searchNumber.v)>> ELSE <<>>)
    IN \* escapeStringRegexp throws TypeError('Expected a string')
       IF searching /\ q.search.k # "str" THEN Fail("TypeError")
       ELSE IF searching /\ TooLong(safeSearch) THEN Fail("BadRequestError")
       ELSE [Plan0 EXCEPT !.next = "page", !.pageNum = pageNum,
                          !.limitNum = limitNum,
                          !.filters = IF searching
                                      THEN Assign(f5, COr(searchConditions))
                                      ELSE f5,
                          !.match = IF searching THEN <<COr(searchConditions)>>
                                    ELSE <<>>,
                          !.sort = ResolveSort(q.sortField, q.sortOrder,
                              {"createdAt", "totalAmount", "orderNumber"}),
                          !.safeSearch = IF searching THEN safeSearch ELSE <<>>,
                          !.searchNumber = IF searching THEN searchNumber ELSE NaN]

(***************************************************************************)
(* getOrders, src/unnamed/part_001:11.                                     *)
(***************************************************************************)
getOrders_part001(user, q, tz) ==
    LET pageNum == NormalizePage(q.page, 10)
        limitNum == NormalizeLimit(q.limit, 10, 10, 10)
        f1 == WithStatus(<<>>, q.status)
        f2 == WithBound(f1, "totalAmount", "$gte", q.totalAmountFrom)
        f3 == WithBound(f2, "totalAmount", "$lte", q.totalAmountTo)
        f4 == WithDateFrom(f3, "createdAt", q.orderDateFrom)
        f5 == WithDateTo(f4, "createdAt", q.orderDateTo, tz)
        searching == Truthy(q.search) /\ q.search.k = "str"
        safeSearch == escapeStringRegexp(q.search.s)
        searchNumber == Number(q.search)
        searchConditions ==
            (IF ~searchNumber.nan /\ searchNumber.v > 0
             THEN <<CNum("orderNumber", "$eq", searchNumber.v)>> ELSE <<>>)
            \o <<CRegex("products.title", safeSearch),
                 CRegex("customer.email", safeSearch),
                 CRegex("customer.name", safeSearch)>>
    IN IF NotAdmin(user) THEN Answer(403)
       ELSE IF searching /\ TooLong(safeSearch) THEN Fail("BadRequestError")
       ELSE IF searching /\ dangerousPatterns(q.search.s) THEN Fail("BadRequestError")
       ELSE [Plan0 EXCEPT !.next = "page", !.pageNum = pageNum,
                          !.limitNum = limitNum, !.filters = f5,
                          !.match = IF searching THEN <<COr(searchConditions)>>
                                    ELSE <<>>,
                          !.sort = ResolveSort(q.sortField, q.sortOrder,
                              {"createdAt", "totalAmount", "orderNumber", "status"}),
                          !.safeSearch = IF searching THEN safeSearch ELSE <<>>,
                          !.searchNumber = IF searching THEN searchNumber ELSE NaN]

(***************************************************************************)
(* getCustomers, src/backend/src/controllers/customers.ts:19.              *)
(***************************************************************************)
getCustomers(user, q, tz) ==
    LET pageNum == NormalizePage(q.page, 0)
        limitNum == NormalizeLimit(q.limit, 0, 10, 100)
        f1 == WithDateFrom(<<>>, "createdAt", q.registrationDateFrom)
        f2 == WithDateTo(f1, "createdAt", q.registrationDateTo, tz)
        f3 == WithDateFrom(f2, "lastOrderDate", q.lastOrderDateFrom)
        f4 == WithDateTo(f3, "lastOrderDate", q.lastOrderDateTo, tz)
        f5 == WithBound(f4, "totalAmount", "$gte", q.totalAmountFrom)
        f6 == WithBound(f5, "totalAmount", "$lte", q.totalAmountTo)
        f7 == WithBound(f6, "orderCount", "$gte", q.orderCountFrom)
        f8 == WithBound(f7, "orderCount", "$lte", q.orderCountTo)
        searching == Truthy(q.search) /\ q.search.k = "str"
        safeSearch == escapeStringRegexp(q.search.s)
        f9 == IF searching
              THEN Assign(f8, COr(<<CRegex("name", safeSearch),
                                    CRegex("email", safeSearch)>>))
              ELSE f8
    IN IF NotAdmin(user) THEN Answer(403)
       ELSE IF searching /\ TooLong(safeSearch) THEN Fail("BadRequestError")
       ELSE [Plan0 EXCEPT !.next = "page", !.pageNum = pageNum,
                          !.limitNum = limitNum, !.filters = f9,
                          !.sort = ResolveSort(q.sortField, q.sortOrder,
                              {"createdAt", "totalAmount", "orderCount",
                               "lastOrderDate", "name", "email"}),
                          !.safeSearch = IF searching THEN safeSearch ELSE <<>>]

(***************************************************************************)
(* getProducts, src/backend/src/controllers/products.ts:42.                *)
(***************************************************************************)
getProducts(user, q, tz) ==
    [Plan0 EXCEPT !.next = "page", !.pageNum = NormalizePage(q.page, 0),
                  !.limitNum = NormalizeLimit(q.limit, 0, 5, 100)]


(***************************************************************************)
(* getOrdersCurrentUser, src/backend/src/controllers/order.ts:134.         *)
(* Up to the first await. A missing res.locals.user makes                  *)
(* res.locals.user._id throw a TypeError, which the catch passes to next().*)
(***************************************************************************)
getOrdersCurrentUser(user, q, tz) ==
    LET pageNum == NormalizePage(q.page, 10)
        limitNum == NormalizeLimit(q.limit, 10, 5, 10)
    IN IF ~user.present THEN Fail("TypeError")
       ELSE IF Truthy(q.search) /\ q.search.k = "str" THEN Fail("BadRequestError")
       ELSE [Plan0 EXCEPT !.next = "page", !.pageNum = pageNum,
                          !.limitNum = limitNum,
                          !.filters = <<CId("customer", user.id)>>]

\* a faulty variant of getOrdersCurrentUser of part_001: the search by number
\* replaces the filter (filters = { orderNumber: searchNumber })
getOrdersCurrentUser_part001_SearchOnly(user, q, tz) ==
    LET pageNum == NormalizePage(q.page, 10)
        limitNum == NormalizeLimit(q.limit, 10, 5, 10)
        searching == Truthy(q.search) /\ q.search.k = "str"
        safeSearch == escapeStringRegexp(q.search.s)
        searchNumber == Number(q.search)
        byNumber == searching /\ ~searchNumber.nan /\ searchNumber.v > 0
    IN IF ~user.present THEN Fail("TypeError")
       ELSE IF searching /\ TooLong(safeSearch) THEN Fail("BadRequestError")
       ELSE [Plan0 EXCEPT !.next = IF searching /\ ~byNumber THEN "products"
                                   ELSE "page",
                          !.pageNum = pageNum, !.limitNum = limitNum,
                          !.filters = IF byNumber
                                      THEN <<CNum("orderNumber", "$eq", searchNumber.v)>>
                                      ELSE <<CId("customer", user.id)>>,
                          !.safeSearch = IF searching THEN safeSearch ELSE <<>>,
                          !.searchNumber = IF searching THEN searchNumber ELSE NaN]

(***************************************************************************)
(* getOrdersCurrentUser, src/unnamed/part_001:197. With a search that is   *)
(* no positive number the handler first awaits Product.find.               *)
(***************************************************************************)
getOrdersCurrentUser_part001(user, q, tz) ==
    LET pageNum == NormalizePage(q.page, 10)
        limitNum == NormalizeLimit(q.limit, 10, 5, 10)
        searching == Truthy(q.search) /\ q.search.k = "str"
        safeSearch == escapeStringRegexp(q.search.s)
        searchNumber == Number(q.search)
        byNumber == searching /\ ~searchNumber.nan /\ searchNumber.v > 0
        f0 == <<CId("customer", user.id)>>
    IN IF ~user.present THEN Fail("TypeError")
       ELSE IF searching /\ TooLong(safeSearch) THEN Fail("BadRequestError")
       ELSE [Plan0 EXCEPT !.next = IF searching /\ ~byNumber THEN "products"
                                   ELSE "page",
                          !.pageNum = pageNum, !.limitNum = limitNum,
                          !.filters = IF byNumber
                                      THEN Assign(f0, CNum("orderNumber", "$eq",
                                                           searchNumber.v))
                                      ELSE f0,
                          !.safeSearch = IF searching THEN safeSearch ELSE <<>>,
                          !.searchNumber = IF searching THEN searchNumber ELSE NaN]

(***************************************************************************)
(* getOrdersCurrentUser, src/backend/src/controllers/order.ts:639. The     *)
(* first await is User.findById; the search is looked at after it (see     *)
(* AfterFindUser_639).                                                     *)
(***************************************************************************)
getOrdersCurrentUser_639(user, q, tz) ==
    IF ~user.present THEN Fail("TypeError")
    ELSE [Plan0 EXCEPT !.next = "user", !.pageNum = NormalizePage(q.page, 0),
                       !.limitNum = NormalizeLimit(q.limit, 0, 5, 50)]

\* order.ts:676-685, once User.findById has answered with the user
AfterFindUser_639(plan, q) ==
    LET searching == Truthy(q.search)
        safeSearch == escapeStringRegexp(q.search.s)
    IN IF ~searching THEN [plan EXCEPT !.next = "respond"]
       ELSE IF q.search.k # "str" THEN Fail("TypeError")
       ELSE IF TooLong(safeSearch) THEN Fail("BadRequestError")
       ELSE [plan EXCEPT !.next = "products", !.safeSearch = safeSearch,
                         !.searchNumber = Number(q.search)]

(***************************************************************************)
(* The handlers by name.                                                   *)
(***************************************************************************)
OrdersHandlers == {"getOrders", "getOrders_473", "getOrders_part001"}
CurrentUserHandlers == {"getOrdersCurrentUser", "getOrdersCurrentUser_639",
                        "getOrdersCurrentUser_part001"}
ListHandlers == OrdersHandlers \cup CurrentUserHandlers
                \cup {"getCustomers", "getProducts"}

\* the handler run from its call to its first await or to its answer
Prologue(h, user, q, tz) ==
    CASE h = "getOrders" -> getOrders(user, q, tz)
      [] h = "getOrders_473" -> getOrders_473(user, q, tz)
      [] h = "getOrders_part001" -> getOrders_part001(user, q, tz)
      [] h = "getOrdersCurrentUser" -> getOrdersCurrentUser(user, q, tz)
      [] h = "getOrdersCurrentUser_639" -> getOrdersCurrentUser_639(user, q, tz)
      [] h = "getOrdersCurrentUser_part001" -> getOrdersCurrentUser_part001(user, q, tz)
      [] h = "getCustomers" -> getCustomers(user, q, tz)
      [] h = "getProducts" -> getProducts(user, q, tz)


(***************************************************************************)
(* The document store (MongoDB through mongoose), as far as the handlers   *)
(* use it. A collection is the sequence of its documents in natural order. *)
(*   Product   the ids 1..N; the title of a product is ProductTitle(id)    *)
(*   Order     id, orderNumber, status, totalAmount, createdAt, customer   *)
(*             (a user id), products (product ids)                         *)
(*   User      id, name, email, roles, totalAmount, orderCount, createdAt, *)
(*             lastOrderDate, orders (order ids), password (its hash),     *)
(*             tokens (the hashes of the refresh tokens in force)          *)
(***************************************************************************)
ProductTitle(id) == IF id % 2 = 1 THEN <<"T","e","a">> ELSE <<"m","u","g","1">>

InitOrders ==
    << [id |-> 1, orderNumber |-> 1, status |-> "pending", totalAmount |-> 100,
        createdAt |-> [d |-> 0, ms |-> 0], customer |-> 2, products |-> <<1>>],
       [id |-> 2, orderNumber |-> 2, status |-> "shipped", totalAmount |-> 250,
        createdAt |-> [d |-> 14, ms |-> 0], customer |-> 2, products |-> <<1, 2>>],
       [id |-> 3, orderNumber |-> 3, status |-> "shipped", totalAmount |-> 250,
        createdAt |-> [d |-> 31, ms |-> 12 * HourMs], customer |-> 1,
        products |-> <<2>>] >>

InitUsers ==
    << [id |-> 1, name |-> <<"a","n","n">>, email |-> <<"a","@","x",".","y">>,
        roles |-> {"customer", "admin"}, totalAmount |-> 250, orderCount |-> 1,
        createdAt |-> [d |-> 0, ms |-> 0], lastOrderDate |-> [d |-> 31, ms |-> 0],
        orders |-> <<3>>, password |-> "hash1", tokens |-> {}],
       [id |-> 2, name |-> <<"B","o","b">>, email |-> <<"b","@","x",".","y">>,
        roles |-> {"customer"}, totalAmount |-> 350, orderCount |-> 2,
        createdAt |-> [d |-> 14, ms |-> 0], lastOrderDate |-> [d |-> 14, ms |-> 0],
        orders |-> <<1, 2>>, password |-> "hash2", tokens |-> {}] >>

NoCustomer == [present |-> FALSE, name |-> <<>>, email |-> <<>>]

UpperCase == <<"A","B","C","D","E","F","G","H","I","J","K","L","M","N","O","P",
               "Q","R","S","T","U","V","W","X","Y","Z">>
LowerCase == <<"a","b","c","d","e","f","g","h","i","j","k","l","m","n","o","p",
               "q","r","s","t","u","v","w","x","y","z">>

\* the canonical form of a character under the i flag
Fold(c) == IF \E i \in 1..Len(UpperCase) : UpperCase[i] = c
           THEN LowerCase[CHOOSE i \in 1..Len(UpperCase) : UpperCase[i] = c]
           ELSE c

FoldCase(s) == [i \in 1..Len(s) |-> Fold(s[i])]

\* new RegExp(re, 'i').test(text) for a pattern re that escapeStringRegexp
\* made: re holds no regex syntax but its escapes, so it matches exactly the
\* texts u with escapeStringRegexp(u) = re, whatever the case of the letters;
\* test looks for such a u anywhere in text
RegExpTest(re, text) ==
    \E i \in 1..(Len(text) + 1) : \E j \in (i - 1)..Len(text) :
        FoldCase(escapeStringRegexp(SubSeq(text, i, j))) = FoldCase(re)

DateLE(a, b) == a.d < b.d \/ (a.d = b.d /\ a.ms <= b.ms)

\* one condition that is not an $or, on document doc; titles are the titles
\* of doc's looked-up products and cust its looked-up customer (aggregate
\* after $lookup), <<>> and NoCustomer on the collection itself
MatchLeaf(c, doc, titles, cust) ==
    CASE c.kind = "regex" ->
           CASE c.field = "products.title" ->
                  \E i \in 1..Len(titles) : RegExpTest(c.re, titles[i])
             [] c.field = "customer.email" ->
                  cust.present /\ RegExpTest(c.re, cust.email)
             [] c.field = "customer.name" ->
                  cust.present /\ RegExpTest(c.re, cust.name)
             [] OTHER -> c.field \in DOMAIN doc /\ RegExpTest(c.re, doc[c.field])
      [] c.field \notin DOMAIN doc -> FALSE
      [] c.kind = "num" ->
           CASE c.op = "$gte" -> doc[c.field] >= c.n
             [] c.op = "$lte" -> doc[c.field] <= c.n
             [] OTHER -> doc[c.field] = c.n
      [] c.kind = "date" ->
           IF c.op = "$gte" THEN DateLE([d |-> c.n, ms |-> c.m], doc[c.field])
           ELSE DateLE(doc[c.field], [d |-> c.n, ms |-> c.m])
      [] c.kind = "str" -> doc[c.field] = c.t
      [] c.kind = "id" -> doc[c.field] = c.n
      [] c.kind = "ids" ->
           \E i \in 1..Len(doc[c.field]) : \E j \in 1..Len(c.ids) :
               doc[c.field][i] = c.ids[j]
      [] OTHER -> FALSE

Match(filters, doc, titles, cust) ==
    \A i \in 1..Len(filters) :
        IF filters[i].kind = "or"
        THEN \E j \in 1..Len(filters[i].sub) :
                 MatchLeaf(filters[i].sub[j], doc, titles, cust)
        ELSE MatchLeaf(filters[i], doc, titles, cust)

\* MongoDB leaves open in which order a read returns the documents that no
\* sort key tells apart. scan is that order, "forward" (the order of the
\* collection) or "backward"; it stays the same while the dataset is the same.
VARIABLE scan

Reverse(seq) == [i \in 1..Len(seq) |-> seq[Len(seq) + 1 - i]]

\* the documents of a collection as a read without a sort meets them
Natural(coll) == IF scan = "backward" THEN Reverse(coll) ELSE coll

\* collection.find(filters) / the documents countDocuments(filters) counts,
\* in scan order
Find(coll, filters) ==
    SelectSeq(Natural(coll), LAMBDA doc : Match(filters, doc, <<>>, NoCustomer))


(***************************************************************************)
(* Sorting, skip and limit. Documents with equal keys keep their natural   *)
(* order.                                                                  *)
(***************************************************************************)
StatusRank(t) == CASE t = "cancelled" -> 1 [] t = "delivered" -> 2
                   [] t = "pending" -> 3 [] t = "processing" -> 4
                   [] OTHER -> 5

\* the characters of names and e-mail addresses in code-unit order
CodeOrder == <<".">> \o DecDigits \o <<"@">> \o UpperCase \o LowerCase

CharRank(c) == IF \E i \in 1..Len(CodeOrder) : CodeOrder[i] = c
               THEN CHOOSE i \in 1..Len(CodeOrder) : CodeOrder[i] = c
               ELSE 0

RECURSIVE TextLess(_, _)
TextLess(a, b) ==
    IF b = <<>> THEN FALSE
    ELSE IF a = <<>> THEN TRUE
    ELSE IF a[1] = b[1] THEN TextLess(Tail(a), Tail(b))
    ELSE CharRank(a[1]) < CharRank(b[1])

\* x[field] < y[field]
KeyLess(field, x, y) ==
    CASE field \in {"createdAt", "lastOrderDate"} ->
           DateLE(x[field], y[field]) /\ x[field] # y[field]
      [] field = "status" -> StatusRank(x.status) < StatusRank(y.status)
      [] field \in {"name", "email"} -> TextLess(x[field], y[field])
      [] OTHER -> x[field] < y[field]

RECURSIVE InsertSorted(_, _, _, _)
InsertSorted(doc, sorted, field, dir) ==
    IF sorted = <<>> THEN <<doc>>
    ELSE IF (IF dir = 1 THEN KeyLess(field, doc, sorted[1])
             ELSE KeyLess(field, sorted[1], doc))
         THEN <<doc>> \o sorted
    ELSE <<sorted[1]>> \o InsertSorted(doc, Tail(sorted), field, dir)

RECURSIVE SortBy(_, _, _)
SortBy(docs, field, dir) ==
    IF docs = <<>> THEN <<>>
    ELSE InsertSorted(docs[Len(docs)],
                      SortBy(SubSeq(docs, 1, Len(docs) - 1), field, dir),
                      field, dir)

\* .sort(sort): sort has one key, or none
Sorted(docs, sort) ==
    IF DOMAIN sort = {} THEN docs
    ELSE LET field == CHOOSE f \in DOMAIN sort : TRUE
         IN SortBy(docs, field, sort[field])

\* .skip(skip).limit(limit)
Page(docs, skip, limit) ==
    IF skip >= Len(docs) THEN <<>>
    ELSE SubSeq(docs, skip + 1, Min(Len(docs), skip + limit))

Ids(docs) == [i \in 1..Len(docs) |-> docs[i].id]

\* the user document with this id, as $lookup/populate see it
CustomerOf(users, id) ==
    IF \E i \in 1..Len(users) : users[i].id = id
    THEN LET u == users[CHOOSE i \in 1..Len(users) : users[i].id = id]
         IN [present |-> TRUE, name |-> u.name, email |-> u.email]
    ELSE NoCustomer

\* the product ids of an order that $lookup finds in the Product collection
Existing(products, pids) ==
    SelectSeq(pids, LAMBDA p : \E i \in 1..Len(products) : products[i] = p)

Titles(pids) == [i \in 1..Len(pids) |-> ProductTitle(pids[i])]

(***************************************************************************)
(* The page reads.                                                         *)
(***************************************************************************)
\* Order.find(filters).sort(sort).skip(skip).limit(limit), and the same on
\* User for getCustomers
FindPage(coll, plan, sort) ==
    Ids(Page(Sorted(Find(coll, plan.filters), sort),
             (plan.pageNum - 1) * plan.limitNum, plan.limitNum))

\* Order.aggregate of part_001:92-171: $match filters, $lookup products and
\* users, $unwind customer, the search $match, $sort, $skip, $limit
Aggregate_part001(orders, users, products, plan) ==
    LET rows == SelectSeq(Find(orders, plan.filters),
                   LAMBDA o : CustomerOf(users, o.customer).present)
        hit == SelectSeq(rows,
                   LAMBDA o : Match(plan.match, o,
                                    Titles(Existing(products, o.products)),
                                    CustomerOf(users, o.customer)))
    IN Ids(Page(Sorted(hit, plan.sort),
                (plan.pageNum - 1) * plan.limitNum, plan.limitNum))

RECURSIVE Unwind(_, _)
\* $unwind '$products': one row [o, p] per looked-up product of each order
Unwind(rows, products) ==
    IF rows = <<>> THEN <<>>
    ELSE LET ps == Existing(products, rows[1].products)
         IN [i \in 1..Len(ps) |-> [o |-> rows[1], p |-> ps[i]]]
            \o Unwind(Tail(rows), products)

RECURSIVE Distinct(_)
\* the ids of a sequence without repetition, by first occurrence
Distinct(ids) ==
    IF ids = <<>> THEN <<>>
    ELSE LET front == Distinct(SubSeq(ids, 1, Len(ids) - 1))
         IN IF \E i \in 1..Len(front) : front[i] = ids[Len(ids)] THEN front
            ELSE Append(front, ids[Len(ids)])

\* Order.aggregate of order.ts:548-621. The first stage is { $match: filters }
\* with the filters object itself, so the $or that line 591 adds to filters is
\* part of it. Then the lookups, $unwind customer, $unwind products, the
\* search $match, $sort, $skip, $limit and the $group by _id.
Aggregate_473(orders, users, products, plan) ==
    LET rows == SelectSeq(Find(orders, plan.filters),
                   LAMBDA o : CustomerOf(users, o.customer).present)
        hit == SelectSeq(Unwind(rows, products),
                   LAMBDA r : Match(plan.match, r.o, <<ProductTitle(r.p)>>,
                                    CustomerOf(users, r.o.customer)))
        sorted == LET os == [i \in 1..Len(hit) |-> hit[i].o]
                  IN Sorted(os, plan.sort)
    IN Distinct(Ids(Page(sorted, (plan.pageNum - 1) * plan.limitNum,
                         plan.limitNum)))


(***************************************************************************)
(* State.                                                                  *)
(*   tz                       the server's UTC offset in hours             *)
(*   products, orders, users  the collections                              *)
(*   req     the request being handled: handler h, caller user, query q    *)
(*   pc      "idle", the await the handler stops at ("user", "products",   *)
(*           "page", "count"), or "done" once it has answered              *)
(*   plan    the handler's local variables                                 *)
(*   mem     user.orders as User.findById returned them (order.ts:676)     *)
(*   ops     the datastore operations the request has issued, in order     *)
(*   items   the result of the page read                                   *)
(*   resp    the answer                                                    *)
(*   writes  the writes by other requests since this request was called    *)
(*   scan    (declared above) the order of a read without a sort           *)
(*   first   history: the answer to this same request when the client sent *)
(*           it the time before (see Repeat)                               *)
(*   price   the price field of each product document (null or a number)   *)
(*   disk    the files of public/temp and of the upload directory          *)
(*   jar     the refresh tokens the server has signed: what a client can   *)
(*           send in the refreshToken cookie                               *)
(***************************************************************************)
VARIABLES tz, products, orders, users, req, pc, plan, mem, ops, items, resp, writes,
          first, price, disk, jar

vars == <<tz, products, orders, users, req, pc, plan, mem, ops, items, resp, writes,
          scan, first, price, disk, jar>>

\* what outlives a request
store == <<tz, products, orders, users, scan, price, disk, jar>>

\* the price field of a product document: null, or a number
NullPrice == [null |-> TRUE, v |-> 0]
Price(v) == [null |-> FALSE, v |-> v]

\* the price of the products the store holds when the server starts, and of
\* the products other requests create
ListPrice == Price(100)

NoResp == [status |-> 0, error |-> "", items |-> <<>>, total |-> 0,
           totalPages |-> 0, currentPage |-> 0, pageSize |-> 0]

\* the answer of a handler that returned without a page: res.status(code).json
\* or next(error)
Reply(p) == [NoResp EXCEPT !.status = p.status, !.error = p.error]

\* a faulty variant of Respond: totalPages from the page that was read
Respond_PagesFromItems(p, found, total) ==
    [status |-> 200, error |-> "", items |-> found, total |-> total,
     totalPages |-> CeilDiv(Len(found), p.limitNum), currentPage |-> p.pageNum,
     pageSize |-> p.limitNum]

\* a faulty variant of Respond: currentPage is clamped to the last page
Respond_ClampedPage(p, found, total) ==
    [status |-> 200, error |-> "", items |-> found, total |-> total,
     totalPages |-> CeilDiv(total, p.limitNum),
     currentPage |-> Min(p.pageNum, Max(1, CeilDiv(total, p.limitNum))),
     pageSize |-> p.limitNum]

\* res.status(200).json({ items, pagination: { total, totalPages, currentPage, pageSize } })
Respond(p, found, total) ==
    [status |-> 200, error |-> "", items |-> found, total |-> total,
     totalPages |-> CeilDiv(total, p.limitNum), currentPage |-> p.pageNum,
     pageSize |-> p.limitNum]

\* a datastore operation: role is "page", "count" or "lookup"; paged tells
\* whether it carries skip and limit
Op(coll, op, role, filters, match, sort, paged, skip, limit) ==
    [coll |-> coll, op |-> op, role |-> role, filters |-> filters,
     match |-> match, sort |-> sort, paged |-> paged, skip |-> skip,
     limit |-> limit]

NoSort == <<>>

\* no earlier answer to the request in flight is known
NoFirst == [seen |-> FALSE, quiet |-> FALSE, resp |-> NoResp]

InitStore(zones, sizes, scans) ==
    /\ tz \in zones
    /\ scan \in scans
    /\ first = NoFirst
    /\ products \in {[i \in 1..n |-> i] : n \in sizes}
    /\ price = [i \in 1..Len(products) |-> ListPrice]
    /\ disk = [temp |-> {}, images |-> {}]
    /\ jar = {}
    /\ orders = InitOrders
    /\ users = InitUsers
    /\ req = [h |-> "getProducts", user |-> NoUser, q |-> EmptyQuery]
    /\ pc = "idle"
    /\ plan = Plan0
    /\ mem = <<>>
    /\ ops = <<>>
    /\ items = <<>>
    /\ resp = NoResp
    /\ writes = 0

\* the same with the documents returned in the order of the collection
InitWith(zones, sizes) == InitStore(zones, sizes, {"forward"})

\* handler h starts for caller user with query q and runs to its first await
\* or to its answer
Start(h, user, q) ==
    /\ req' = [h |-> h, user |-> user, q |-> q]
    /\ plan' = Prologue(h, user, q, tz)
    /\ pc' = plan'.next
    /\ resp' = IF plan'.next = "done" THEN Reply(plan') ELSE NoResp
    /\ mem' = <<>>
    /\ ops' = <<>>
    /\ items' = <<>>
    /\ writes' = 0
    /\ UNCHANGED store

\* the router calls handler h for caller user with query q
Call(h, user, q) ==
    /\ pc = "idle"
    /\ Start(h, user, q)
    /\ first' = NoFirst

\* the client sends the request it has just been answered once more: the
\* handler starts again, and the first answer is kept for comparison
Repeat ==
    /\ pc = "done"
    /\ ~first.seen
    /\ Start(req.h, req.user, req.q)
    /\ first' = [seen |-> TRUE, quiet |-> writes = 0, resp |-> resp]

\* the response has been sent: the request and the handler's locals are gone
Return ==
    /\ pc = "done"
    /\ pc' = "idle"
    /\ req' = [h |-> "getProducts", user |-> NoUser, q |-> EmptyQuery]
    /\ plan' = Plan0
    /\ mem' = <<>>
    /\ ops' = <<>>
    /\ items' = <<>>
    /\ resp' = NoResp
    /\ writes' = 0
    /\ first' = NoFirst
    /\ UNCHANGED store

HasUser(id) == \E i \in 1..Len(users) : users[i].id = id

\* user.orders populated: the orders the user document refers to
OrdersOf(id) ==
    LET u == users[CHOOSE i \in 1..Len(users) : users[i].id = id]
    IN SelectSeq(orders, LAMBDA o : \E j \in 1..Len(u.orders) : u.orders[j] = o.id)

\* order.ts:657-718: User.findById(userId).populate('orders').orFail() answers
FindUser ==
    /\ pc = "user"
    /\ ops' = Append(ops, Op("User", "findById", "lookup",
                             <<CId("_id", req.user.id)>>, <<>>, NoSort, FALSE, 0, 0))
    /\ LET p == IF HasUser(req.user.id) THEN AfterFindUser_639(plan, req.q)
                ELSE Fail("NotFoundError")
           mine == IF HasUser(req.user.id) THEN OrdersOf(req.user.id) ELSE <<>>
       IN /\ plan' = p
          /\ mem' = mine
          /\ pc' = IF p.next = "products" THEN "products" ELSE "done"
          /\ resp' = IF p.next = "done" THEN Reply(p)
                     ELSE IF p.next = "respond"
                     THEN Respond(p, Ids(Page(mine, (p.pageNum - 1) * p.limitNum,
                                              p.limitNum)), Len(mine))
                     ELSE resp
          /\ items' = IF p.next = "respond" THEN resp'.items ELSE items
    /\ UNCHANGED <<store, req, writes, first>>

\* the products whose title matches the search
TitleHits == SelectSeq(products, LAMBDA p : RegExpTest(plan.safeSearch, ProductTitle(p)))

\* the most products part_001:221-224 reads: .limit(100)
ProductLookupLimit == 100

\* Product.find({ title: searchRegex }) answers: order.ts:686-718 filters the
\* orders in memory and answers; part_001:221-230 puts the ids in the filter
FindProducts ==
    /\ pc = "products"
    /\ IF req.h = "getOrdersCurrentUser_639"
       THEN LET hit == SelectSeq(mem, LAMBDA o :
                         \/ ~plan.searchNumber.nan /\ o.orderNumber = plan.searchNumber.v
                         \/ \E i \in 1..Len(o.products) : \E j \in 1..Len(TitleHits) :
                                o.products[i] = TitleHits[j])
            IN /\ ops' = Append(ops, Op("Product", "find", "lookup",
                                        <<CRegex("title", plan.safeSearch)>>, <<>>,
                                        NoSort, FALSE, 0, 0))
               /\ resp' = Respond(plan, Ids(Page(hit, (plan.pageNum - 1) * plan.limitNum,
                                                 plan.limitNum)), Len(hit))
               /\ items' = resp'.items
               /\ pc' = "done"
               /\ plan' = plan
       ELSE /\ ops' = Append(ops, Op("Product", "find", "lookup",
                                     <<CRegex("title", plan.safeSearch)>>, <<>>,
                                     NoSort, TRUE, 0, ProductLookupLimit))
            /\ plan' = [plan EXCEPT !.filters =
                           Assign(plan.filters,
                                  CIn("products", Page(TitleHits, 0, ProductLookupLimit)))]
            /\ pc' = "page"
            /\ UNCHANGED <<resp, items>>
    /\ UNCHANGED <<store, req, mem, writes, first>>

\* the page read answers
PageRead ==
    /\ pc = "page"
    /\ LET skip == (plan.pageNum - 1) * plan.limitNum
           sort == IF req.h \in CurrentUserHandlers THEN DefaultSort ELSE plan.sort
       IN CASE req.h = "getProducts" ->
                 /\ ops' = Append(ops, Op("Product", "find", "page", <<>>, <<>>,
                                          NoSort, TRUE, skip, plan.limitNum))
                 /\ items' = Page(Natural(products), skip, plan.limitNum)
            [] req.h = "getCustomers" ->
                 /\ ops' = Append(ops, Op("User", "find", "page", plan.filters, <<>>,
                                          sort, TRUE, skip, plan.limitNum))
                 /\ items' = FindPage(users, plan, sort)
            [] req.h = "getOrders_473" ->
                 /\ ops' = Append(ops, Op("Order", "aggregate", "page", plan.filters,
                                          plan.match, sort, TRUE, skip, plan.limitNum))
                 /\ items' = Aggregate_473(orders, users, products, plan)
            [] req.h = "getOrders_part001" ->
                 /\ ops' = Append(ops, Op("Order", "aggregate", "page", plan.filters,
                                          plan.match, sort, TRUE, skip, plan.limitNum))
                 /\ items' = Aggregate_part001(orders, users, products, plan)
            [] OTHER ->
                 /\ ops' = Append(ops, Op("Order", "find", "page", plan.filters, <<>>,
                                          sort, TRUE, skip, plan.limitNum))
                 /\ items' = FindPage(orders, plan, sort)
    /\ pc' = "count"
    /\ UNCHANGED <<store, req, plan, mem, resp, writes, first>>

\* countDocuments(filters) answers and the handler sends its response
CountRead ==
    /\ pc = "count"
    /\ LET coll == IF req.h = "getProducts" THEN "Product"
                   ELSE IF req.h = "getCustomers" THEN "User" ELSE "Order"
           total == IF req.h = "getProducts" THEN Len(products)
                    ELSE IF req.h = "getCustomers" THEN Len(Find(users, plan.filters))
                    ELSE Len(Find(orders, plan.filters))
       IN /\ ops' = Append(ops, Op(coll, "countDocuments", "count", plan.filters,
                                   <<>>, NoSort, FALSE, 0, 0))
          /\ resp' = Respond(plan, items, total)
    /\ pc' = "done"
    /\ UNCHANGED <<store, req, plan, mem, items, writes, first>>

\* another request creates a product while this one is in flight
InsertProduct ==
    /\ pc \notin {"idle", "done"}
    /\ writes < MaxWrites
    /\ Len(products) < MaxProducts
    /\ products' = Append(products, Len(products) + 1)
    /\ price' = [i \in 1..(Len(products) + 1) |->
                     IF i <= Len(products) THEN price[i] ELSE ListPrice]
    /\ writes' = writes + 1
    /\ UNCHANGED <<tz, scan, orders, users, req, pc, plan, mem, ops, items, resp, first,
                   disk, jar>>

\* another request deletes a product while this one is in flight. Which
\* document goes makes no difference to an unfiltered, unsorted read, so it is
\* the newest one and the ids stay 1..N.
DeleteProduct ==
    /\ pc \notin {"idle", "done"}
    /\ writes < MaxWrites
    /\ products # <<>>
    /\ products' = SubSeq(products, 1, Len(products) - 1)
    /\ price' = [i \in 1..(Len(products) - 1) |-> price[i]]
    /\ writes' = writes + 1
    /\ UNCHANGED <<tz, scan, orders, users, req, pc, plan, mem, ops, items, resp, first,
                   disk, jar>>

\* the order that createOrder saves as the id-th order of the collection
NewOrder(id) ==
    [id |-> id, orderNumber |-> id, status |-> "pending", totalAmount |-> 100,
     createdAt |-> [d |-> 40 + id, ms |-> 0], customer |-> 2, products |-> <<1>>]

\* a faulty variant of InsertOrder: the write is not counted
InsertOrder_Uncounted ==
    /\ pc \notin {"idle", "done"}
    /\ Len(orders) < MaxOrders
    /\ orders' = Append(orders, IF Len(orders) < Len(InitOrders)
                                THEN InitOrders[Len(orders) + 1]
                                ELSE NewOrder(Len(orders) + 1))
    /\ UNCHANGED <<tz, scan, products, users, req, pc, plan, mem, ops, items, resp,
                   first, writes, price, disk, jar>>

\* another request creates an order (createOrder: newOrder.save()) while this
\* one is in flight
InsertOrder ==
    /\ pc \notin {"idle", "done"}
    /\ writes < MaxWrites
    /\ Len(orders) < MaxOrders
    /\ orders' = Append(orders, IF Len(orders) < Len(InitOrders)
                                THEN InitOrders[Len(orders) + 1]
                                ELSE NewOrder(Len(orders) + 1))
    /\ writes' = writes + 1
    /\ UNCHANGED <<tz, scan, products, users, req, pc, plan, mem, ops, items, resp, first,
                   price, disk, jar>>

\* another request deletes an order (deleteOrder: Order.findByIdAndDelete)
\* while this one is in flight; the newest order goes, so that the ids of the
\* collection stay 1..N
DeleteOrder ==
    /\ pc \notin {"idle", "done"}
    /\ writes < MaxWrites
    /\ orders # <<>>
    /\ orders' = SubSeq(orders, 1, Len(orders) - 1)
    /\ writes' = writes + 1
    /\ UNCHANGED <<tz, scan, products, users, req, pc, plan, mem, ops, items, resp, first,
                   price, disk, jar>>

\* an administrator deletes a customer (deleteCustomer: User.findByIdAndDelete)
\* while this request is in flight; nobody deletes the caller
DeleteCustomer ==
    /\ pc \notin {"idle", "done"}
    /\ writes < MaxWrites
    /\ users # <<>>
    /\ users[Len(users)].id # req.user.id
    /\ users' = SubSeq(users, 1, Len(users) - 1)
    /\ writes' = writes + 1
    /\ UNCHANGED <<tz, scan, products, orders, req, pc, plan, mem, ops, items, resp, first,
                   price, disk, jar>>

(***************************************************************************)
(* The requests the specifications send.                                   *)
(***************************************************************************)
AdminUser == User(1, {"customer", "admin"})
CustomerUser == User(2, {"customer"})
Callers == {NoUser, CustomerUser, AdminUser}

\* the texts of at most n characters over a digit, a second digit, the sign
\* and a letter (which is also the x of a 0x prefix)
NumChars == {"0", "1", "-", "x"}
Texts(n) == UNION {[1..k -> NumChars] : k \in 0..n}

\* raw values of a numeric parameter
RawNumbers(n) ==
    {Absent, Obj, Arr(<< <<"1","1">>, <<"0">> >>), Str(<<" ","9">>)}
    \cup {Str(s) : s \in Texts(n)}

PagingQueries ==
    {[EmptyQuery EXCEPT !.page = p, !.limit = l] :
        p \in RawNumbers(MaxPageLen), l \in RawNumbers(MaxLimitLen)}

SortFieldTexts == {"createdAt", "totalAmount", "orderNumber", "status",
                   "orderCount", "lastOrderDate", "name", "email",
                   "password", "$where", "__proto__"}

SortQueries ==
    {[EmptyQuery EXCEPT !.sortField = f, !.sortOrder = o] :
        f \in {NoTok, Tok(""), TokArr("createdAt"), TokObj}
              \cup {Tok(t) : t \in SortFieldTexts},
        o \in {NoTok, Tok(""), Tok("asc"), Tok("desc"), Tok("foo"), Tok("DESC"),
               TokArr("desc"), TokObj}}

Run(c, n) == [i \in 1..n |-> c]

\* operator-like texts that dangerousPatterns does not list
NearMisses == {<<"$","W","H","E","R","E">>, <<"$","s","e","t">>,
               <<"w","h","e","r","e">>, <<"$">>}

SearchTexts ==
    {Run(c, n) : c \in {"a", "$", "-"}, n \in 0..MaxSearchRun}
    \cup {pre \o t \o post : t \in DangerousTokens \cup NearMisses,
                             pre \in {<<>>, <<"a">>}, post \in {<<>>, <<"1">>}}
    \cup {<<"2">>, <<"0">>, <<"-","5">>, <<" ","2"," ">>, <<"0","x","2">>,
          <<"t","e","A">>, <<"M","U","G">>, <<"b","o","b">>}

SearchQueries ==
    {[EmptyQuery EXCEPT !.search = x] :
        x \in {Absent, Obj, Arr(<< <<"a">>, <<"b">> >>)}
              \cup {Str(s) : s \in SearchTexts}}

SearchHandlers == OrdersHandlers \cup CurrentUserHandlers \cup {"getCustomers"}

\* queries of every kind for the authorization gate
AuthQueries ==
    SortQueries
    \cup {[EmptyQuery EXCEPT !.status = Tok("shipped")],
          [EmptyQuery EXCEPT !.page = Str(<<"2">>), !.limit = Str(<<"1">>)],
          [EmptyQuery EXCEPT !.totalAmountFrom = Str(<<"1","0","0">>)],
          [EmptyQuery EXCEPT !.orderDateFrom = Tok("2024-07-01")],
          [EmptyQuery EXCEPT !.search = Str(<<"2">>)],
          [EmptyQuery EXCEPT !.search = Str(<<"$","w","h","e","r","e">>)],
          [EmptyQuery EXCEPT !.search = Arr(<< <<"a">>, <<"b">> >>)],
          [EmptyQuery EXCEPT !.search = Str(Run("a", SearchMaxLen + 1))]}

ProductNumbers ==
    {Absent, Str(<<"x">>), Str(<<"0">>), Str(<<"-","1">>), Str(<<"1">>),
     Str(<<"2">>), Str(<<"3">>), Str(<<"4">>), Str(<<"5">>), Str(<<"1","2">>),
     Str(<<"1","3">>)}

ProductQueries ==
    {[EmptyQuery EXCEPT !.page = p, !.limit = l] :
        p \in ProductNumbers, l \in ProductNumbers}

(***************************************************************************)
(* Specifications. One request is in flight at a time: the router takes    *)
(* the next request when it is idle.                                       *)
(***************************************************************************)
CallPaging ==
    /\ pc = "idle"
    /\ \E h \in ListHandlers, q \in PagingQueries : Call(h, AdminUser, q)

NextPaging == CallPaging \/ Return \/ FindUser \/ PageRead \/ CountRead

\* every list handler with every raw page and limit
SpecPaging == InitWith({0}, {2}) /\ [][NextPaging]_vars

CallSort ==
    /\ pc = "idle"
    /\ \E h \in OrdersHandlers \cup {"getCustomers"}, q \in SortQueries :
           Call(h, AdminUser, q)

NextSort == CallSort \/ Return \/ PageRead \/ CountRead

\* the handlers that sort by request, with every sortField and sortOrder
SpecSort == InitWith({0}, {2}) /\ [][NextSort]_vars

CallSearch ==
    /\ pc = "idle"
    /\ \E h \in SearchHandlers, q \in SearchQueries : Call(h, AdminUser, q)

NextSearch == CallSearch \/ Return \/ FindUser \/ FindProducts \/ PageRead \/ CountRead

\* the handlers that take a search, with every search text
SpecSearch == InitWith({0}, {2}) /\ [][NextSearch]_vars

CallAuth ==
    /\ pc = "idle"
    /\ \E h \in OrdersHandlers, user \in Callers, q \in AuthQueries :
           Call(h, user, q)

NextAuth == CallAuth \/ Return \/ PageRead \/ CountRead

\* getOrders for every caller
SpecAuth == InitWith({0}, {2}) /\ [][NextAuth]_vars

CallProducts ==
    /\ pc = "idle"
    /\ \E user \in Callers, q \in ProductQueries : Call("getProducts", user, q)

NextProducts ==
    CallProducts \/ Return \/ PageRead \/ CountRead \/ InsertProduct \/ DeleteProduct

\* getProducts on every store size, with writes of other requests interleaved
SpecProducts == InitWith({0}, 0..MaxProducts) /\ [][NextProducts]_vars

(***************************************************************************)
(* The constants of each handler, as the properties below name them.       *)
(***************************************************************************)
\* MAX_LIMIT of the handler
MaxLimitOf(h) == CASE h \in {"getOrders", "getOrders_part001", "getOrdersCurrentUser",
                             "getOrdersCurrentUser_part001"} -> 10
                   [] h = "getOrdersCurrentUser_639" -> 50
                   [] h \in {"getOrders_473", "getCustomers", "getProducts"} -> 100

\* DEFAULT_LIMIT of the handler
DefaultLimitOf(h) == IF h \in CurrentUserHandlers \cup {"getProducts"} THEN 5 ELSE 10

\* the radix the handler parses page and limit with (0: none given)
RadixOf(h) == IF h \in {"getOrders", "getOrders_part001", "getOrdersCurrentUser",
                        "getOrdersCurrentUser_part001"} THEN 10 ELSE 0

\* the sort allow-list of the handler
AllowedSortOf(h) ==
    CASE h \in {"getOrders", "getOrders_part001"} ->
             {"createdAt", "totalAmount", "orderNumber", "status"}
      [] h = "getOrders_473" -> {"createdAt", "totalAmount", "orderNumber"}
      [] h = "getCustomers" -> {"createdAt", "totalAmount", "orderCount",
                                "lastOrderDate", "name", "email"}

\* a request has been called and its answer has not been taken away yet
Called == pc # "idle"

\* the page reads the request has issued
PageOps == {i \in 1..Len(ops) : ops[i].role = "page"}

\* the limit and the page the request works with: the handler's locals while
\* it runs, the reported pageSize and currentPage once it has answered
LimitNum == IF pc = "done" THEN resp.pageSize ELSE plan.limitNum
PageNum == IF pc = "done" THEN resp.currentPage ELSE plan.pageNum

(***************************************************************************)
(* Pagination normalizer (SpecPaging).                                     *)
(***************************************************************************)
\* C1: in every list handler, whatever the raw limit is, the limit of the page
\* read and the reported pageSize are integers in 1..MAX_LIMIT of the handler.
C1_LimitWithinBounds ==
    Called =>
        /\ LimitNum \in 1..MaxLimitOf(req.h)
        /\ \A i \in PageOps : ops[i].limit \in 1..MaxLimitOf(req.h)
        /\ pc = "done" => resp.status = 200 /\ resp.pageSize \in 1..MaxLimitOf(req.h)

\* a limit above the maximum has been read with the maximum and reported so
C1_Witness ==
    /\ pc = "done"
    /\ req.h = "getOrders"
    /\ req.q.limit = Str(<<"1", "1", "1">>)
    /\ PageOps # {}
    /\ \A i \in PageOps : ops[i].limit = 10
    /\ resp.pageSize = 10

\* C2: in every list handler, whatever the raw page is, the reported
\* currentPage is an integer >= 1 and the skip of the page read,
\* (page - 1) * limit, is not negative.
C2_PageAtLeastOne ==
    Called =>
        /\ PageNum \in Nat \ {0}
        /\ \A i \in PageOps : /\ ops[i].skip >= 0
                              /\ ops[i].skip = (plan.pageNum - 1) * ops[i].limit
        /\ pc = "done" => resp.status = 200 /\ resp.currentPage >= 1

\* a negative page has been read as page 1
C2_Witness ==
    /\ pc = "done"
    /\ req.h = "getCustomers"
    /\ req.q.page = Str(<<"-", "1">>)
    /\ PageOps # {}
    /\ \A i \in PageOps : ops[i].skip = 0
    /\ resp.currentPage = 1

\* texts classified without parsing them
NoDigitText(s) == \/ s = <<>>
                  \/ s[1] \notin {"0", "1", "2", "3", "4", "5", "6", "7", "8", "9", "-", " "}
                  \/ s[1] = "-" /\ (Len(s) = 1 \/ s[2] \notin {"0", "1", "2", "3", "4",
                                                             "5", "6", "7", "8", "9"})
ZeroText(s) == s # <<>> /\ \A i \in 1..Len(s) : s[i] = "0"
NegativeText(s) == Len(s) >= 2 /\ s[1] = "-"
                   /\ s[2] \in {"1", "2", "3", "4", "5", "6", "7", "8", "9"}

\* C3: pageNum = max(1, parsed page or 1) and limitNum = min(MAX_LIMIT,
\* max(1, parsed limit or DEFAULT_LIMIT)); a limit that is not numeric or
\* parses to 0 gives DEFAULT_LIMIT (5 for getOrdersCurrentUser and getProducts,
\* 10 for getOrders and getCustomers), a negative limit gives 1, and no page or
\* limit makes the handler answer with an error.
C3_NormalizerFormula ==
    Called =>
        LET h == req.h
            page == parseInt(req.q.page, RadixOf(h), 1)
            limit == parseInt(req.q.limit, RadixOf(h), DefaultLimitOf(h))
        IN /\ PageNum = Max(1, OrElse(page, 1))
           /\ LimitNum = Min(MaxLimitOf(h), Max(1, OrElse(limit, DefaultLimitOf(h))))
           /\ DefaultLimitOf(h) = IF h \in {"getOrders", "getOrders_473",
                                            "getOrders_part001", "getCustomers"}
                                  THEN 10 ELSE 5
           /\ req.q.limit.k = "str" =>
                  /\ NoDigitText(req.q.limit.s) \/ ZeroText(req.q.limit.s)
                         => LimitNum = DefaultLimitOf(h)
                  /\ NegativeText(req.q.limit.s) => LimitNum = 1
           /\ req.q.limit.k = "obj" => LimitNum = DefaultLimitOf(h)
           /\ pc = "done" => resp.status = 200 /\ resp.error = ""

\* a limit that is no number has been answered with the default of 5
C3_Witness ==
    /\ pc = "done"
    /\ req.h = "getOrdersCurrentUser"
    /\ req.q.limit = Str(<<"x">>)
    /\ req.q.page = Str(<<"0">>)
    /\ resp.status = 200
    /\ resp.pageSize = 5
    /\ resp.currentPage = 1

(***************************************************************************)
(* Sort resolver (SpecSort).                                               *)
(***************************************************************************)
\* C4: in getOrders and getCustomers, a sortField outside the allow-list
\* (an empty, array-valued or object-valued one included) gives the sort
\* {createdAt: -1}; the sort of the page read always has exactly one key and
\* the key is in the allow-list.
C4_SortFallsBackToDefault ==
    \A i \in PageOps :
        /\ Cardinality(DOMAIN ops[i].sort) = 1
        /\ DOMAIN ops[i].sort \subseteq AllowedSortOf(req.h)
        /\ (/\ req.q.sortField.k # "absent"
            /\ ~(req.q.sortField.k = "str"
                 /\ req.q.sortField.t \in AllowedSortOf(req.h)))
               => ops[i].sort = DefaultSort

\* a field outside the allow-list was asked for ascending and the read was
\* sorted by createdAt descending
C4_Witness ==
    /\ pc = "done"
    /\ req.h = "getCustomers"
    /\ req.q.sortField = Tok("password")
    /\ req.q.sortOrder = Tok("asc")
    /\ PageOps # {}
    /\ \A i \in PageOps : ops[i].sort = DefaultSort

\* C5: in getOrders and getCustomers, with sortField in the allow-list and a
\* non-empty sortOrder, the sort is on that field, -1 if sortOrder is "desc"
\* and 1 for any other value; an absent sortOrder counts as "desc".
C5_SortDirection ==
    \A i \in PageOps :
        LET f == req.q.sortField
            o == req.q.sortOrder
        IN (/\ f.k = "str"
            /\ f.t \in AllowedSortOf(req.h)
            /\ o.k = "absent" \/ TokTruthy(o))
               => ops[i].sort = (f.t :> (IF o = Tok("desc") \/ o.k = "absent"
                                         THEN -1 ELSE 1))

\* an unrecognised sortOrder has sorted ascending
C5_Witness ==
    /\ pc = "done"
    /\ req.h = "getOrders_473"
    /\ req.q.sortField = Tok("totalAmount")
    /\ req.q.sortOrder = Tok("foo")
    /\ PageOps # {}
    /\ \A i \in PageOps : ops[i].sort = ("totalAmount" :> 1)

(***************************************************************************)
(* Search sanitizer (SpecSearch).                                          *)
(***************************************************************************)
\* the request carries a search string
SearchText == req.q.search.k = "str"

\* C6: a search whose escaped form is longer than 100 characters is rejected
\* with a BadRequest error before any datastore operation of the request, in
\* getOrders, getOrdersCurrentUser and getCustomers; an escaped form of exactly
\* 100 characters is not rejected for its length.
C6_LongSearchRejectedFirst ==
    (Called /\ SearchText) =>
        LET n == Len(escapeStringRegexp(req.q.search.s))
        IN /\ n > SearchMaxLen =>
                  /\ pc = "done"
                  /\ resp.error = "BadRequestError"
                  /\ ops = <<>>
           /\ (/\ n = SearchMaxLen
               /\ pc = "done"
               /\ req.h # "getOrdersCurrentUser") => resp.status = 200

\* C7: a search that contains a deny-listed operator token is rejected by
\* getOrders (called by an admin) with a BadRequest error and without any
\* aggregate, find or count; the raw string is what is checked.
C7_OperatorTokenRejected ==
    (/\ Called
     /\ req.h \in OrdersHandlers
     /\ ~NotAdmin(req.user)
     /\ SearchText
     /\ dangerousPatterns(req.q.search.s))
        => /\ pc = "done"
           /\ resp.error = "BadRequestError"
           /\ ops = <<>>

\* C8: getCustomers called by an admin with search "$where" answers 400 and
\* runs neither User.find nor User.countDocuments.
C8_CustomersWhereRejected ==
    (/\ Called
     /\ req.h = "getCustomers"
     /\ ~NotAdmin(req.user)
     /\ req.q.search = Str(<<"$", "w", "h", "e", "r", "e">>))
        => /\ pc = "done"
           /\ resp.status = 400
           /\ ops = <<>>

(***************************************************************************)
(* Authorization gate (SpecAuth).                                          *)
(***************************************************************************)
\* C9: getOrders called without a user, or by a user whose roles lack
\* 'admin', answers 403 and issues no datastore operation, whatever the query.
C9_NonAdminForbidden ==
    (/\ Called
     /\ req.h \in OrdersHandlers
     /\ NotAdmin(req.user))
        => /\ pc = "done"
           /\ resp.status = 403
           /\ ops = <<>>

(***************************************************************************)
(* List query executor of getProducts (SpecProducts).                      *)
(***************************************************************************)
\* C10: getProducts on a store of N products that no write changes during the
\* request answers total N, totalPages ceil(N / limitNum), currentPage
\* pageNum, pageSize limitNum and min(limitNum, max(0, N - (pageNum - 1) *
\* limitNum)) items; N = 12, page = 1, limit = 5 gives 5 items and 3 pages.
C10_ProductsPage ==
    (pc = "done" /\ req.h = "getProducts" /\ writes = 0) =>
        LET N == Len(products)
            p == plan.pageNum
            l == plan.limitNum
        IN /\ resp.status = 200
           /\ resp.total = N
           /\ resp.totalPages * l >= N
           /\ (resp.totalPages - 1) * l < N
           /\ resp.totalPages >= 0
           /\ resp.currentPage = p
           /\ resp.pageSize = l
           /\ Len(resp.items) = Min(l, Max(0, N - (p - 1) * l))
           /\ (/\ N = 12
               /\ req.q.page = Str(<<"1">>)
               /\ req.q.limit = Str(<<"5">>))
                  => /\ Len(resp.items) = 5
                     /\ resp.totalPages = 3
                     /\ resp.currentPage = 1
                     /\ resp.pageSize = 5

\* 12 products, page 1, limit 5: 5 items of 3 pages
C10_Witness ==
    /\ pc = "done"
    /\ req.h = "getProducts"
    /\ writes = 0
    /\ Len(products) = 12
    /\ req.q.page = Str(<<"1">>)
    /\ req.q.limit = Str(<<"5">>)
    /\ resp.items = <<1, 2, 3, 4, 5>>
    /\ resp.total = 12
    /\ resp.totalPages = 3

(***************************************************************************)
(* Requests for the filter builder (SpecFilter).                           *)
(***************************************************************************)
StatusValues == {NoTok, Tok(""), Tok("shipped"), Tok("pending"), Tok("SHIPPED"),
                 Tok("delivering"), TokArr("shipped"), TokObj}

BoundValues == {Absent, Str(<<>>), Str(<<"0">>), Str(<<"1", "0", "0">>),
                Str(<<"2", "5", "0">>), Str(<<"-", "5">>), Str(<<"a", "b", "c">>),
                Arr(<< <<"1", "0", "0">> >>), Obj}

DateValues == {NoTok, Tok(""), Tok("2024-07-01"), Tok("2024-07-15T12:00:00Z"),
               Tok("2024-08-01"), Tok("yesterday"), TokArr("2024-07-01"), TokObj}

\* the parameters whose text the handlers parse (Str) and only compare (Tok)
StrFields == {"page", "limit", "totalAmountFrom", "totalAmountTo",
              "orderCountFrom", "orderCountTo", "search"}
TokFields == {"sortField", "sortOrder", "status", "orderDateFrom", "orderDateTo",
              "registrationDateFrom", "registrationDateTo", "lastOrderDateFrom",
              "lastOrderDateTo"}

Shapes == {"str", "arr", "obj"}

\* a value of each shape: ?p=$ne, ?p=2&p=$ne, ?p[$ne]=2
StrShaped(k) == CASE k = "str" -> Str(<<"$", "n", "e">>)
                  [] k = "arr" -> Arr(<< <<"2">>, <<"$", "n", "e">> >>)
                  [] k = "obj" -> Obj
TokShaped(k) == CASE k = "str" -> Tok("$ne")
                  [] k = "arr" -> TokArr("createdAt")
                  [] k = "obj" -> TokObj

\* every parameter of shape k
Shaped(k) == [f \in DOMAIN EmptyQuery |->
                 IF f \in StrFields THEN StrShaped(k) ELSE TokShaped(k)]

\* every parameter of one shape, but for one parameter of another or absent
ShapeQueries ==
    {Shaped(k) : k \in Shapes}
    \cup {[Shaped(k) EXCEPT ![f] = StrShaped(k2)] :
              k \in Shapes, k2 \in Shapes, f \in StrFields}
    \cup {[Shaped(k) EXCEPT ![f] = TokShaped(k2)] :
              k \in Shapes, k2 \in Shapes, f \in TokFields}
    \cup {[Shaped(k) EXCEPT !.search = Absent] : k \in Shapes}
    \cup {[EmptyQuery EXCEPT ![f] = StrShaped(k)] : k \in Shapes, f \in StrFields}
    \cup {[EmptyQuery EXCEPT ![f] = TokShaped(k)] : k \in Shapes, f \in TokFields}

FilterQueries ==
    {[EmptyQuery EXCEPT !.status = s, !.totalAmountFrom = a] :
        s \in StatusValues, a \in BoundValues}
    \cup {[EmptyQuery EXCEPT !.totalAmountFrom = a, !.totalAmountTo = b] :
              a \in BoundValues, b \in BoundValues}
    \cup {[EmptyQuery EXCEPT !.orderCountFrom = a, !.orderCountTo = b] :
              a \in BoundValues, b \in BoundValues}
    \cup {[EmptyQuery EXCEPT !.orderDateFrom = a, !.orderDateTo = b] :
              a \in DateValues, b \in DateValues}
    \cup {[EmptyQuery EXCEPT !.registrationDateFrom = a, !.registrationDateTo = b] :
              a \in DateValues, b \in DateValues}
    \cup {[EmptyQuery EXCEPT !.lastOrderDateFrom = a, !.lastOrderDateTo = b] :
              a \in DateValues, b \in DateValues}
    \cup {[EmptyQuery EXCEPT !.page = Obj, !.limit = Str(<<"x">>),
                             !.sortField = f, !.sortOrder = o, !.status = s] :
              f \in {TokObj, Tok("password")}, o \in {Tok(""), TokArr("desc")},
              s \in {Tok("delivering"), TokObj}}
    \cup ShapeQueries

FilterHandlers == OrdersHandlers \cup CurrentUserHandlers \cup {"getCustomers"}

CallFilter ==
    /\ pc = "idle"
    /\ \E h \in FilterHandlers, q \in FilterQueries : Call(h, AdminUser, q)

NextFilter == CallFilter \/ Return \/ FindUser \/ FindProducts \/ PageRead \/ CountRead

\* the handlers that build a filter, with every kind of value of every parameter
SpecFilter == InitWith({0}, {2}) /\ [][NextFilter]_vars

(***************************************************************************)
(* Filter builder (SpecFilter).                                            *)
(***************************************************************************)
\* the handlers an administrator lists with
AdminHandlers == OrdersHandlers \cup {"getCustomers"}

\* filter f holds condition c
Holds(f, c) == \E j \in 1..Len(f) : f[j] = c

\* filter f constrains field with operator op
Constrains(f, field, op) == \E j \in 1..Len(f) : f[j].field = field /\ f[j].op = op

\* a date parameter that is present and parses
ValidDate(raw) == TokTruthy(raw) /\ ~NewDate(raw).nan

\* 23:59:59.999 of the day of date
LastMsOfDay(date) == Date(date.d, DayMs - 1)

\* C11: when an admin getOrders request carries a valid orderDateFrom and a
\* valid orderDateTo, the createdAt filter of the read has both bounds: $gte
\* the parsed lower date and $lte the parsed upper date at 23:59:59.999 of its
\* day; orderDateFrom=2024-07-01 and orderDateTo=2024-08-01 give
\* 2024-07-01T00:00:00.000 and 2024-08-01T23:59:59.999.
C11_DateRangeKeepsBothBounds ==
    \A i \in PageOps :
        (/\ req.h \in OrdersHandlers
         /\ ValidDate(req.q.orderDateFrom)
         /\ ValidDate(req.q.orderDateTo))
            => /\ Holds(ops[i].filters,
                        CDate("createdAt", "$gte", NewDate(req.q.orderDateFrom)))
               /\ Holds(ops[i].filters,
                        CDate("createdAt", "$lte",
                              LastMsOfDay(NewDate(req.q.orderDateTo))))
               /\ (/\ req.q.orderDateFrom = Tok("2024-07-01")
                   /\ req.q.orderDateTo = Tok("2024-08-01"))
                      => /\ Holds(ops[i].filters,
                                  CDate("createdAt", "$gte", Date(0, 0)))
                         /\ Holds(ops[i].filters,
                                  CDate("createdAt", "$lte", Date(31, DayMs - 1)))

\* the numeric range fields of the handler
BoundFields(h) == IF h = "getCustomers" THEN {"totalAmount", "orderCount"}
                  ELSE {"totalAmount"}

\* the raw parameter behind a bound
RawBound(field, op) ==
    CASE field = "totalAmount" /\ op = "$gte" -> req.q.totalAmountFrom
      [] field = "totalAmount" /\ op = "$lte" -> req.q.totalAmountTo
      [] field = "orderCount" /\ op = "$gte" -> req.q.orderCountFrom
      [] field = "orderCount" /\ op = "$lte" -> req.q.orderCountTo

\* a bound that is given and parses as a number >= 0
ParsesNonNegative(raw) == Truthy(raw) /\ ~Number(raw).nan /\ Number(raw).v >= 0

\* C12: in getOrders and getCustomers a numeric range bound is in the filter
\* if and only if its raw value parses as a number >= 0 (and then with that
\* number); two valid bounds of one field are both there, and an invalid bound
\* leaves the other bound of the field in place.
C12_BoundIffNonNegative ==
    \A i \in PageOps :
        req.h \in AdminHandlers =>
            \A field \in BoundFields(req.h) : \A op \in {"$gte", "$lte"} :
                /\ Constrains(ops[i].filters, field, op)
                       <=> ParsesNonNegative(RawBound(field, op))
                /\ ParsesNonNegative(RawBound(field, op))
                       => Holds(ops[i].filters,
                                CNum(field, op, Number(RawBound(field, op)).v))

\* C13: in getOrders the filter has a status condition if and only if the raw
\* status is a string equal to one of 'pending', 'processing', 'shipped',
\* 'delivered', 'cancelled'; any other status (unknown string, array, object)
\* is left out and the request still succeeds.
C13_StatusIffListed ==
    req.h \in OrdersHandlers =>
        LET listed == /\ req.q.status.k = "str"
                      /\ req.q.status.t \in {"pending", "processing", "shipped",
                                             "delivered", "cancelled"}
        IN /\ \A i \in 1..Len(ops) :
                  /\ Constrains(ops[i].filters, "status", "$eq") <=> listed
                  /\ listed => Holds(ops[i].filters, CStr("status", req.q.status.t))
           /\ (pc = "done" /\ req.q.search.k = "absent") => resp.status = 200

\* an unknown status was left out of both reads and the request answered 200
C13_Witness ==
    /\ pc = "done"
    /\ req.h = "getOrders_473"
    /\ req.q.status = Tok("delivering")
    /\ resp.status = 200
    /\ Len(ops) = 2
    /\ \A i \in 1..Len(ops) : ops[i].filters = <<>>

\* the field names a handler's reads may carry, lookups included
FieldsOf(h) ==
    CASE h = "getOrders" -> {"status", "totalAmount", "createdAt", "orderNumber"}
      [] h = "getOrders_473" ->
             {"status", "totalAmount", "createdAt", "$or", "products.title",
              "orderNumber"}
      [] h = "getOrders_part001" ->
             {"status", "totalAmount", "createdAt", "$or", "products.title",
              "customer.email", "customer.name", "orderNumber"}
      [] h = "getCustomers" ->
             {"createdAt", "lastOrderDate", "totalAmount", "orderCount", "$or",
              "name", "email"}
      [] h \in CurrentUserHandlers ->
             {"customer", "_id", "orderNumber", "products", "title"}

\* the raw parameter behind a date bound
RawDate(h, field, op) ==
    CASE field = "lastOrderDate" /\ op = "$gte" -> req.q.lastOrderDateFrom
      [] field = "lastOrderDate" /\ op = "$lte" -> req.q.lastOrderDateTo
      [] h = "getCustomers" /\ op = "$gte" -> req.q.registrationDateFrom
      [] h = "getCustomers" /\ op = "$lte" -> req.q.registrationDateTo
      [] op = "$gte" -> req.q.orderDateFrom
      [] OTHER -> req.q.orderDateTo

\* condition c (no $or) holds a value the handler validated: a number parsed
\* from its parameter (a range bound is >= 0), a valid date parsed from its
\* parameter, a listed status, the caller's id, the escaped search string as
\* a pattern, or ids read from the Product collection
ValidatedLeaf(c) ==
    CASE c.kind = "num" /\ c.field \in {"totalAmount", "orderCount"} ->
           /\ c.op \in {"$gte", "$lte"}
           /\ ~Number(RawBound(c.field, c.op)).nan
           /\ c.n = Max(0, Number(RawBound(c.field, c.op)).v)
      [] c.kind = "num" /\ c.field \notin {"totalAmount", "orderCount"} ->
           /\ c.field = "orderNumber" /\ c.op = "$eq"
           /\ req.q.search.k = "str"
           /\ ~Number(req.q.search).nan
           /\ c.n = Number(req.q.search).v
      [] c.kind = "date" ->
           /\ c.op \in {"$gte", "$lte"}
           /\ ValidDate(RawDate(req.h, c.field, c.op))
           /\ LET date == NewDate(RawDate(req.h, c.field, c.op))
              IN Date(c.n, c.m) \in {date, EndOfDay(date, tz)}
      [] c.kind = "str" ->
           c.field = "status" /\ c.op = "$eq" /\ c.t \in allowedStatuses
      [] c.kind = "id" -> c.field \in {"customer", "_id"} /\ c.n = req.user.id
      [] c.kind = "regex" ->
           /\ req.q.search.k = "str"
           /\ c.re = escapeStringRegexp(req.q.search.s)
      [] c.kind = "ids" ->
           \A j \in 1..Len(c.ids) : \E k \in 1..Len(products) : products[k] = c.ids[j]
      [] OTHER -> FALSE

\* every condition of filter f is on a field of the handler and validated
ValidatedFilter(f) ==
    \A j \in 1..Len(f) :
        /\ f[j].field \in FieldsOf(req.h)
        /\ IF f[j].kind = "or"
           THEN \A k \in 1..Len(f[j].sub) :
                    /\ f[j].sub[k].field \in FieldsOf(req.h)
                    /\ ValidatedLeaf(f[j].sub[k])
           ELSE ValidatedLeaf(f[j])

\* C14: whatever the shapes of the query parameters of getOrders,
\* getOrdersCurrentUser and getCustomers (string, array, object), every
\* condition of every read is on one of the handler's field names (or its $or)
\* and holds a validated number, date, listed status, the caller's id or the
\* escaped search pattern, and the sort key is a listed field with direction
\* 1 or -1: no raw parameter value is in the filter or the sort.
C14_OnlyValidatedValues ==
    req.h \in FilterHandlers =>
        \A i \in 1..Len(ops) :
            /\ ValidatedFilter(ops[i].filters)
            /\ ValidatedFilter(ops[i].match)
            /\ \A key \in DOMAIN ops[i].sort :
                   /\ ops[i].sort[key] \in {1, -1}
                   /\ IF req.h \in CurrentUserHandlers THEN key = "createdAt"
                      ELSE key \in AllowedSortOf(req.h)

\* every parameter of getCustomers was an object (?p[$ne]=2) and both reads
\* went out with an empty filter and the default sort
C14_Witness ==
    /\ pc = "done"
    /\ req.h = "getCustomers"
    /\ req.q = Shaped("obj")
    /\ resp.status = 200
    /\ Len(ops) = 2
    /\ ops[1].filters = <<>>
    /\ ops[1].sort = DefaultSort

\* the date fields of the handler's filter
DateFields(h) == IF h = "getCustomers" THEN {"createdAt", "lastOrderDate"}
                 ELSE {"createdAt"}

\* a numeric parameter that is absent or does not parse as a number
NoNumber(raw) == ~Truthy(raw) \/ Number(raw).nan

\* C15: for an administrator, with a datastore that answers, an absent or
\* malformed status, numeric bound, date bound, page, limit, sortField or
\* sortOrder never makes getOrders or getCustomers answer with an error: the
\* request ends with status 200, and a status that is not listed, a bound that
\* is no number and a date that does not parse put no condition in the filter.
C15_MalformedNarrowsNothing ==
    (req.h \in AdminHandlers /\ ~NotAdmin(req.user) /\ req.q.search.k = "absent") =>
        /\ pc = "done" => resp.status = 200 /\ resp.error = "" /\ Len(ops) = 2
        /\ \A i \in 1..Len(ops) :
              /\ (req.q.status.k # "str" \/ req.q.status.t \notin allowedStatuses)
                     => ~Constrains(ops[i].filters, "status", "$eq")
              /\ \A field \in BoundFields(req.h) : \A op \in {"$gte", "$lte"} :
                     NoNumber(RawBound(field, op))
                         => ~Constrains(ops[i].filters, field, op)
              /\ \A field \in DateFields(req.h) : \A op \in {"$gte", "$lte"} :
                     ~ValidDate(RawDate(req.h, field, op))
                         => ~Constrains(ops[i].filters, field, op)

\* getOrders answered 200 with the defaults to a request whose page is an
\* object, whose limit and sortField are no values of theirs and whose status
\* is an object
C15_Witness ==
    /\ pc = "done"
    /\ req.h = "getOrders"
    /\ req.q = [EmptyQuery EXCEPT !.page = Obj, !.limit = Str(<<"x">>),
                                  !.sortField = TokObj, !.sortOrder = TokArr("desc"),
                                  !.status = TokObj]
    /\ resp.status = 200
    /\ resp.currentPage = 1
    /\ resp.pageSize = 10
    /\ ops[1].filters = <<>>
    /\ ops[1].sort = DefaultSort

(***************************************************************************)
(* Search and count (SpecSearch).                                          *)
(***************************************************************************)
\* the search of the request is a non-empty string
Searching == req.q.search.k = "str" /\ req.q.search.s # <<>>

\* the search string parses as a positive number
SearchIsPositive == ~Number(req.q.search).nan /\ Number(req.q.search).v > 0

\* order o matches the escaped search pattern in a text field the handler
\* searches: the titles of its products and, in part_001, the name and the
\* e-mail address of its customer
TextHit(o) ==
    LET re == escapeStringRegexp(req.q.search.s)
        cust == CustomerOf(users, o.customer)
    IN \/ \E i \in 1..Len(o.products) : RegExpTest(re, ProductTitle(o.products[i]))
       \/ /\ req.h = "getOrders_part001"
          /\ cust.present
          /\ RegExpTest(re, cust.name) \/ RegExpTest(re, cust.email)

\* the orders an accepted search selects
SearchSelects(o) == (SearchIsPositive /\ o.orderNumber = Number(req.q.search).v)
                    \/ TextHit(o)

\* the ids in a sequence
Range(seq) == {seq[i] : i \in 1..Len(seq)}

\* C16: in admin getOrders an accepted search selects the orders whose
\* orderNumber is the positive number the search parses as or whose text
\* fields match the escaped pattern, and only the text matches when it is no
\* positive number; a search that is no number never leaves all orders in.
C16_SearchConstrainsOrders ==
    (/\ pc = "done"
     /\ req.h \in OrdersHandlers
     /\ Searching
     /\ resp.status = 200
     /\ resp.currentPage = 1
     /\ resp.pageSize >= Len(orders))
        => Range(resp.items) = {orders[j].id : j \in {k \in 1..Len(orders) :
                                                       SearchSelects(orders[k])}}

\* the number of documents of the collection the handler lists
CollectionSize == IF req.h = "getCustomers" THEN Len(users)
                  ELSE IF req.h = "getProducts" THEN Len(products)
                  ELSE Len(orders)

\* C17: the count read is over the same conditions as the page read: on an
\* unchanged dataset the total of the response is the number of documents the
\* page read returns without skip and limit (page 1 with a limit that is no
\* smaller than the collection cuts nothing off), with a search string too.
C17_CountOverSameConditions ==
    (/\ pc = "done"
     /\ resp.status = 200
     /\ PageOps # {}
     /\ writes = 0
     /\ resp.currentPage = 1
     /\ resp.pageSize >= CollectionSize)
        => resp.total = Len(resp.items)

(***************************************************************************)
(* The caller's own orders (SpecOwn).                                      *)
(***************************************************************************)
\* a caller whose token is valid and whose user document is gone
FormerUser == User(3, {"customer"})

OwnCallers == Callers \cup {FormerUser}

OwnQueries ==
    {[EmptyQuery EXCEPT !.search = x, !.page = p, !.limit = l] :
        x \in {Absent, Obj, Arr(<< <<"3">> >>), Str(<<"1">>), Str(<<"3">>),
               Str(<<"9">>), Str(<<"-","5">>), Str(<<"t","e","A">>),
               Str(<<"M","U","G">>), Str(<<"$","n","e">>)},
        p \in {Absent, Str(<<"2">>)},
        l \in {Absent, Str(<<"1">>)}}

CallOwn ==
    /\ pc = "idle"
    /\ \E h \in CurrentUserHandlers, user \in OwnCallers, q \in OwnQueries :
           Call(h, user, q)

NextOwn == CallOwn \/ Return \/ FindUser \/ FindProducts \/ PageRead \/ CountRead

\* getOrdersCurrentUser for every caller, with and without a search
SpecOwn == InitWith({0}, {2}) /\ [][NextOwn]_vars

\* the orders whose customer is the user with this id
OwnOrders(id) == SelectSeq(orders, LAMBDA o : o.customer = id)

\* C18: whoever calls getOrdersCurrentUser with whatever parameters, every
\* order of the response has the caller as its customer and the total counts
\* orders of the caller only (all of them when there is no search); every read
\* of the Order collection carries the condition customer = caller, which no
\* search condition removes or replaces.
C18_OnlyOwnOrders ==
    req.h \in CurrentUserHandlers =>
        /\ \A i \in 1..Len(ops) :
               ops[i].coll = "Order"
                   => Holds(ops[i].filters, CId("customer", req.user.id))
        /\ Range(items) \subseteq Range(Ids(OwnOrders(req.user.id)))
        /\ (pc = "done" /\ resp.status = 200) =>
               /\ Range(resp.items) \subseteq Range(Ids(OwnOrders(req.user.id)))
               /\ resp.total <= Len(OwnOrders(req.user.id))
               /\ ~Truthy(req.q.search) => resp.total = Len(OwnOrders(req.user.id))

\* a customer searched for the number of an order of somebody else and got
\* nothing, from a filter with both the owner and the number
C18_Witness ==
    /\ pc = "done"
    /\ req.h = "getOrdersCurrentUser_part001"
    /\ req.user = CustomerUser
    /\ req.q.search = Str(<<"3">>)
    /\ resp.status = 200
    /\ resp.items = <<>>
    /\ resp.total = 0
    /\ Len(ops) = 2
    /\ Holds(ops[2].filters, CId("customer", 2))
    /\ Holds(ops[2].filters, CNum("orderNumber", "$eq", 3))
    /\ \E j \in 1..Len(orders) : orders[j].orderNumber = 3

(***************************************************************************)
(* Reads interleaved with writes (SpecWrites).                             *)
(***************************************************************************)
WriteQueries ==
    {[EmptyQuery EXCEPT !.page = p, !.limit = l, !.search = x] :
        p \in {Absent, Str(<<"2">>)},
        l \in {Absent, Str(<<"0">>), Str(<<"1">>), Str(<<"2">>)},
        x \in {Absent, Str(<<"t","e","A">>)}}

CallWrites ==
    /\ pc = "idle"
    /\ \E h \in ListHandlers, q \in WriteQueries : Call(h, AdminUser, q)

NextWrites ==
    \/ CallWrites \/ Return \/ FindUser \/ FindProducts \/ PageRead \/ CountRead
    \/ InsertProduct \/ DeleteProduct \/ InsertOrder \/ DeleteOrder \/ DeleteCustomer

\* every list handler, with the writes of other requests between its reads
SpecWrites == InitWith({0}, {2}) /\ [][NextWrites]_vars

\* C19: whatever inserts and deletes of other requests come between the page
\* read and the count read of a list handler, the totalPages of a response is
\* the ceiling of its own total divided by its own pageSize, and its pageSize
\* is never 0.
C19_TotalPagesOfSameResponse ==
    (pc = "done" /\ resp.status = 200) =>
        /\ resp.pageSize >= 1
        /\ resp.totalPages >= 0
        /\ resp.totalPages * resp.pageSize >= resp.total
        /\ (resp.totalPages - 1) * resp.pageSize < resp.total

\* an order was deleted between the page read and the count read of getOrders:
\* the page holds more orders than the total, and totalPages is that of the
\* total
C19_Witness ==
    /\ pc = "done"
    /\ req.h = "getOrders"
    /\ resp.status = 200
    /\ writes > 0
    /\ Len(resp.items) = 3
    /\ resp.total = 2
    /\ resp.pageSize = 10
    /\ resp.totalPages = 1

(***************************************************************************)
(* The same request twice (SpecTwice).                                     *)
(***************************************************************************)
TwiceQueries ==
    {[EmptyQuery EXCEPT !.sortField = f, !.sortOrder = o, !.page = p, !.limit = l,
                        !.search = x] :
        f \in {NoTok, Tok("totalAmount"), Tok("status")},
        o \in {NoTok, Tok("asc")},
        p \in {Absent, Str(<<"2">>)},
        l \in {Absent, Str(<<"1">>), Str(<<"2">>)},
        x \in {Absent, Str(<<"t","e","A">>)}}

CallTwice ==
    /\ pc = "idle"
    /\ \E h \in ListHandlers, user \in {AdminUser, CustomerUser}, q \in TwiceQueries :
           Call(h, user, q)

NextTwice ==
    \/ CallTwice \/ Repeat \/ Return \/ FindUser \/ FindProducts \/ PageRead
    \/ CountRead \/ InsertOrder \/ DeleteOrder

\* every list handler, each request sent a second time after its answer, for
\* both orders in which the datastore may return documents of equal sort keys
SpecTwice == InitStore({0}, {2}, {"forward", "backward"}) /\ [][NextTwice]_vars

MaxCatalog == 3
\* most files in public/temp and the upload directory together
MaxFiles == 2

\* a 24-digit hexadecimal text naming ObjectId n, its letters in lower or in
\* upper case; ObjectId.toString() writes lower case
IdText(n, form) == [hex |-> TRUE, n |-> n, form |-> form]
\* a text that is no ObjectId
NotAnId == [hex |-> FALSE, n |-> 0, form |-> "lower"]
toString(id) == IdText(id, "lower")
\* validator.isMongoId(text), Types.ObjectId.isValid(text) of such texts
isMongoId(text) == text.hex
\* the ObjectId mongoose casts a valid text to: hexadecimal digits of either case
CastId(text) == text.n

\* a JSON value of a request body that is read as a number
JsNull == [k |-> "null", s |-> <<>>, a |-> <<>>]
JsNum(n) == [k |-> "num", s |-> <<>>, a |-> <<>>, n |-> n]

NoBody == [k |-> "none"]
NoOps == <<>>

\* the handler has answered: res.status(status).send(body), or next(error)
\* and the error handler's answer
Answered(h, user, q, status, error, body, did) ==
    /\ req' = [h |-> h, user |-> user, q |-> q]
    /\ pc' = "done"
    /\ resp' = [NoResp EXCEPT !.status = status, !.error = error, !.items = body]
    /\ ops' = did
    /\ plan' = Plan0
    /\ mem' = <<>>
    /\ items' = <<>>
    /\ writes' = 0
    /\ first' = NoFirst

\* a write the handler issued
Write(coll, op, id) ==
    Op(coll, op, "write", <<CId("_id", id)>>, <<>>, NoSort, FALSE, 0, 0)

HasProduct(id) == \E i \in 1..Len(products) : products[i] = id

\* the _id of the next document of a collection whose ids are ids
NextId(ids) == IF ids = {} THEN 1 ELSE (CHOOSE m \in ids : \A k \in ids : k <= m) + 1

(***************************************************************************)
(* products.ts: createProduct, updateProduct, deleteProduct.               *)
(***************************************************************************)
\* products.ts:13-19: what adminGuard passes to its next
adminGuard(user) == IF NotAdmin(user) THEN "UnauthorizedError" ELSE ""

\* a variant of Discard: the callback hands the error on
Discard_Rethrow(error) == error

\* () => {}: the next the three handlers give adminGuard (products.ts:78, 134,
\* 201); it drops what it is given, and the handler goes on. The result is the
\* error that stops the handler: none
Discard(error) == ""

\* price !== undefined && price !== null ? Math.max(0, parseFloat(price)) : null
validatedPrice(p) == IF p.k = "num" THEN Price(Max(0, p.n)) ELSE NullPrice

\* safeMovingFile(image.fileName, temp, uploads) when the body names an image
\* that is in public/temp
MoveImage(image) ==
    IF image \in disk.temp
    THEN [temp |-> disk.temp \ {image}, images |-> disk.images \cup {image}]
    ELSE disk

\* products.ts:72-125
createProduct(user, body) ==
    LET stop == Discard(adminGuard(user))
        id == NextId(Range(products))
    IN IF stop # ""
       THEN /\ Answered("createProduct", user, body, ErrorStatus(stop), stop, <<>>, NoOps)
            /\ UNCHANGED store
       ELSE IF ~body.title \/ ~body.category
       THEN /\ Answered("createProduct", user, body, 400, "BadRequestError", <<>>, NoOps)
            /\ UNCHANGED store
       ELSE /\ id <= MaxCatalog
            /\ products' = Append(products, id)
            /\ price' = [i \in DOMAIN price \cup {id} |->
                            IF i = id THEN validatedPrice(body.price) ELSE price[i]]
            /\ disk' = MoveImage(body.image)
            /\ Answered("createProduct", user, body, 201, "", <<id>>,
                        <<Write("Product", "create", id)>>)
            /\ UNCHANGED <<tz, orders, users, scan, jar>>

\* products.ts:128-192
updateProduct(user, productId, body) ==
    LET stop == Discard(adminGuard(user))
        q == [productId |-> productId, body |-> body]
        id == CastId(productId)
    IN IF stop # ""
       THEN /\ Answered("updateProduct", user, q, ErrorStatus(stop), stop, <<>>, NoOps)
            /\ UNCHANGED store
       ELSE IF ~isMongoId(productId)
       THEN /\ Answered("updateProduct", user, q, 400, "BadRequestError", <<>>, NoOps)
            /\ UNCHANGED store
       ELSE /\ disk' = MoveImage(body.image)
            /\ IF HasProduct(id)
               THEN /\ price' = IF body.price.k = "absent" THEN price
                                ELSE [price EXCEPT ![id] = validatedPrice(body.price)]
                    /\ Answered("updateProduct", user, q, 200, "", <<id>>,
                                <<Write("Product", "findByIdAndUpdate", id)>>)
               ELSE /\ price' = price
                    /\ Answered("updateProduct", user, q, 404, "NotFoundError", <<>>,
                                <<Write("Product", "findByIdAndUpdate", id)>>)
            /\ UNCHANGED <<tz, products, orders, users, scan, jar>>

\* products.ts:195-220
deleteProduct(user, productId) ==
    LET stop == Discard(adminGuard(user))
        q == [productId |-> productId]
        id == CastId(productId)
    IN IF stop # ""
       THEN /\ Answered("deleteProduct", user, q, ErrorStatus(stop), stop, <<>>, NoOps)
            /\ UNCHANGED store
       ELSE IF ~isMongoId(productId)
       THEN /\ Answered("deleteProduct", user, q, 400, "BadRequestError", <<>>, NoOps)
            /\ UNCHANGED store
       ELSE IF ~HasProduct(id)
       THEN /\ Answered("deleteProduct", user, q, 404, "NotFoundError", <<>>,
                        <<Write("Product", "findByIdAndDelete", id)>>)
            /\ UNCHANGED store
       ELSE /\ products' = SelectSeq(products, LAMBDA p : p # id)
            /\ price' = [i \in DOMAIN price \ {id} |-> price[i]]
            /\ Answered("deleteProduct", user, q, 200, "", <<id>>,
                        <<Write("Product", "findByIdAndDelete", id)>>)
            /\ UNCHANGED <<tz, orders, users, scan, disk, jar>>

\* the bodies of POST /product and PATCH /product/:productId: title and
\* category present or not, price undefined, null or a number, image absent
\* (0) or naming a file
ProductBodies ==
    [title : BOOLEAN, category : BOOLEAN,
     price : {Absent, JsNull, JsNum(-3), JsNum(0), JsNum(5)},
     image : 0..MaxFiles]

ProductIdTexts == {NotAnId} \cup {IdText(n, "lower") : n \in 1..(MaxCatalog + 1)}

(***************************************************************************)
(* POST /upload: the multer middleware (middlewares/file.ts:1-52) and the  *)
(* versions of uploadFile.                                                 *)
(***************************************************************************)
KB == 1024
MB == 1024 * KB

\* a file of the multipart body: the extension of its original name, the
\* Content-Type the client reports, its size in bytes, and whether its bytes
\* are an image sharp can read
NoFile == [present |-> FALSE, ext |-> "", mimetype |-> "", size |-> 0, valid |-> FALSE]
SentFile(ext, mimetype, size, valid) ==
    [present |-> TRUE, ext |-> ext, mimetype |-> mimetype, size |-> size, valid |-> valid]

allowedMimeTypes == {"image/jpeg", "image/png", "image/gif", "image/webp"}
allowedExtensions == {"jpg", "jpeg", "png", "gif", "webp"}

\* mime.lookup(originalname): the type of the extension, "" for false
lookup(ext) == CASE ext \in {"jpg", "jpeg"} -> "image/jpeg"
                 [] ext = "png" -> "image/png"
                 [] ext = "gif" -> "image/gif"
                 [] ext = "webp" -> "image/webp"
                 [] ext = "svg" -> "image/svg+xml"
                 [] ext = "txt" -> "text/plain"
                 [] OTHER -> ""

\* mimetype.startsWith('image/')
startsWithImage(t) == t \in allowedMimeTypes \cup {"image/svg+xml"}

\* middlewares/file.ts:33-51: what multer does with the file: "none" (no file
\* sent, or fileFilter turned it down: req.file stays undefined), "error"
\* (larger than limits.fileSize: multer removes what it wrote and calls
\* next(error)), "stored" (written to public/temp under a fresh name)
fileFilter(file) ==
    IF ~file.present \/ file.mimetype \notin allowedMimeTypes THEN "none"
    ELSE IF file.size > 10 * MB THEN "error"
    ELSE "stored"

UploadHandlers == {"uploadFile", "uploadFile_part001", "uploadFile_part002",
                   "uploadFile_part003", "uploadFile_part004", "uploadFile_part005",
                   "uploadFile_part005_111"}

\* the versions that answer through next(new BadRequestError(...))
NextsError(h) == h \in {"uploadFile_part001", "uploadFile_part003"}

\* the versions that fs.unlinkSync(req.file.path) before they answer 400
Unlinks(h) == h \in {"uploadFile_part002", "uploadFile_part005", "uploadFile_part005_111"}

maxFileSize(h) == IF h \in {"uploadFile_part005", "uploadFile_part005_111"}
                  THEN 10 * MB ELSE 5 * MB
minFileSize == 2 * KB

\* the checks of uploadFile on req.file, in the order of the code; TRUE when
\* the file passes. The stored name is 32 random hexadecimal digits and an
\* extension: it is never the original name, it holds no path separator and it
\* matches /^[a-zA-Z0-9\-\.]+$/ when the extension does, as all extensions
\* sent here do.
Accepts(h, file) ==
    LET fileMimeType == IF lookup(file.ext) # "" THEN lookup(file.ext) ELSE file.mimetype
    IN /\ fileMimeType \in allowedMimeTypes
       /\ h # "uploadFile_part005_111" => file.ext \in allowedExtensions
       /\ file.size >= minFileSize
       /\ file.size <= maxFileSize(h)
       /\ h \in {"uploadFile", "uploadFile_part001", "uploadFile_part002",
                 "uploadFile_part005"}
              => startsWithImage(file.mimetype)
       /\ h = "uploadFile_part005" => file.valid

\* upload.ts:7-70, part_001:553-609, part_002:8-81, part_003:7-65, part_004:7-60,
\* part_005:9-103, part_005:111-177 behind upload.single('file'); a rejected
\* file stays in public/temp unless the version unlinks it
uploadFile(h, user, file) ==
    LET name == NextId(disk.temp \cup disk.images)
    IN CASE fileFilter(file) = "none" ->
              /\ Answered(h, user, file, 400, IF NextsError(h) THEN "BadRequestError" ELSE "",
                          <<>>, NoOps)
              /\ UNCHANGED store
         [] fileFilter(file) = "error" ->
              /\ Answered(h, user, file, 500, "MulterError", <<>>, NoOps)
              /\ UNCHANGED store
         [] OTHER ->
              /\ IF Accepts(h, file)
                 THEN /\ Cardinality(disk.temp \cup disk.images) < MaxFiles
                      /\ disk' = [disk EXCEPT !.temp = @ \cup {name}]
                      /\ Answered(h, user, file, 201, "", <<name>>, NoOps)
                 ELSE /\ Unlinks(h) \/ Cardinality(disk.temp \cup disk.images) < MaxFiles
                      /\ disk' = IF Unlinks(h) THEN disk
                                 ELSE [disk EXCEPT !.temp = @ \cup {name}]
                      /\ Answered(h, user, file, 400,
                                  IF NextsError(h) THEN "BadRequestError" ELSE "",
                                  <<>>, NoOps)
              /\ UNCHANGED <<tz, products, orders, users, scan, price, jar>>

\* the files a client sends
SentFiles ==
    {NoFile} \cup
    {SentFile(e, m, s, v) :
        e \in {"jpg", "png", "svg", "txt", ""},
        m \in {"image/jpeg", "image/png", "text/plain"},
        s \in {2 * KB - 1, 2 * KB, 5 * MB, 5 * MB + 1, 10 * MB, 10 * MB + 1},
        v \in BOOLEAN}

(***************************************************************************)
(* The product mutations (SpecProductAdmin).                               *)
(***************************************************************************)
ProductMutations == {"createProduct", "updateProduct", "deleteProduct"}

\* a client uploads an image that uploadFile of upload.ts accepts
CallUploadImage ==
    /\ pc = "idle"
    /\ uploadFile("uploadFile", AdminUser, SentFile("png", "image/png", 2 * KB, TRUE))

CallCreateProduct ==
    /\ pc = "idle"
    /\ \E user \in Callers : \E body \in ProductBodies :
          /\ body.image \in {0} \cup disk.temp
          /\ createProduct(user, body)

CallUpdateProduct ==
    /\ pc = "idle"
    /\ \E user \in Callers : \E productId \in ProductIdTexts : \E body \in ProductBodies :
          /\ body.image \in {0} \cup disk.temp
          /\ updateProduct(user, productId, body)

CallDeleteProduct ==
    /\ pc = "idle"
    /\ \E user \in Callers : \E productId \in ProductIdTexts :
          deleteProduct(user, productId)

NextProductAdmin ==
    \/ CallUploadImage
    \/ CallCreateProduct
    \/ CallUpdateProduct
    \/ CallDeleteProduct
    \/ Return

SpecProductAdmin == InitWith({0}, {2}) /\ [][NextProductAdmin]_vars

\* C21: createProduct, updateProduct and deleteProduct called by a caller
\* without the admin role answer an authorization error, move no file and
\* write nothing: the Product collection is as it was before the call.
C21_NonAdminMutationRefused ==
    [][(/\ pc = "idle"
        /\ pc' = "done"
        /\ req'.h \in ProductMutations
        /\ NotAdmin(req'.user))
          => /\ resp'.error \in {"UnauthorizedError", "ForbiddenError"}
             /\ ops' = NoOps
             /\ disk' = disk
             /\ products' = products
             /\ price' = price]_vars

(***************************************************************************)
(* order.ts, part_001: the handlers of one order.                          *)
(***************************************************************************)
ByNumberHandlers == {"getOrderByNumber", "getOrderByNumber_part001", "getOrderByNumber_721"}
OwnByNumberHandlers == {"getOrderCurrentUserByNumber", "getOrderCurrentUserByNumber_part001",
                        "getOrderCurrentUserByNumber_752"}
UpdateOrderHandlers == {"updateOrder", "updateOrder_part001", "updateOrder_865"}
DeleteOrderHandlers == {"deleteOrder", "deleteOrder_part001", "deleteOrder_910"}

\* the radix the handler gives parseInt for req.params.orderNumber: 10, or
\* none (order.ts:728, 760, 880)
ParamRadix(h) == IF h \in {"getOrderByNumber_721", "getOrderCurrentUserByNumber_752",
                           "updateOrder_865"} THEN 0 ELSE 10

\* Order.findOne({ orderNumber }): the first order of that number, or <<>>
FindByNumber(n) == Page(SelectSeq(orders, LAMBDA o : o.orderNumber = n), 0, 1)

FindOneOp(filters) == Op("Order", "findOne", "lookup", filters, <<>>, NoSort, FALSE, 0, 0)

\* order.ts:188-228, part_001:270-310, order.ts:721-750
getOrderByNumber(h, user, text) ==
    LET orderNumber == parseIntStr(text, ParamRadix(h))
        found == FindByNumber(orderNumber.v)
    IN /\ IF orderNumber.nan \/ orderNumber.v <= 0
          THEN Answered(h, user, text, 400, "BadRequestError", <<>>, NoOps)
          ELSE IF found = <<>>
          THEN Answered(h, user, text, 404, "NotFoundError", <<>>,
                        <<FindOneOp(<<CNum("orderNumber", "$eq", orderNumber.v)>>)>>)
          ELSE Answered(h, user, text, 200, "", Ids(found),
                        <<FindOneOp(<<CNum("orderNumber", "$eq", orderNumber.v)>>)>>)
       /\ UNCHANGED store

\* order.ts:230-272, part_001:312-354 (the customer is part of the filter),
\* order.ts:752-788 (the order is read by its number alone, its customer is
\* populated and compared: populate leaves null for a user that is gone, and
\* order.customer._id throws a TypeError)
getOrderCurrentUserByNumber(h, user, text) ==
    LET orderNumber == parseIntStr(text, ParamRadix(h))
        found == FindByNumber(orderNumber.v)
        own == Page(SelectSeq(orders, LAMBDA o : /\ o.orderNumber = orderNumber.v
                                                 /\ o.customer = user.id), 0, 1)
        byNumber == <<FindOneOp(<<CNum("orderNumber", "$eq", orderNumber.v)>>)>>
        byBoth == <<FindOneOp(<<CNum("orderNumber", "$eq", orderNumber.v),
                                CId("customer", user.id)>>)>>
    IN /\ IF orderNumber.nan \/ orderNumber.v <= 0
          THEN Answered(h, user, text, 400, "BadRequestError", <<>>, NoOps)
          ELSE IF h = "getOrderCurrentUserByNumber_752"
          THEN IF found = <<>>
               THEN Answered(h, user, text, 404, "NotFoundError", <<>>, byNumber)
               ELSE IF ~HasUser(found[1].customer)
               THEN Answered(h, user, text, 500, "TypeError", <<>>, byNumber)
               ELSE IF found[1].customer # user.id
               THEN Answered(h, user, text, 404, "NotFoundError", <<>>, byNumber)
               ELSE Answered(h, user, text, 200, "", Ids(found), byNumber)
          ELSE IF own = <<>>
          THEN Answered(h, user, text, 404, "NotFoundError", <<>>, byBoth)
          ELSE Answered(h, user, text, 200, "", Ids(own), byBoth)
       /\ UNCHANGED store

\* a faulty variant of SetStatus: the update is applied to every order
SetStatus_Many(n, status) ==
    [i \in 1..Len(orders) |-> [orders[i] EXCEPT !.status = status]]

\* Order.findOneAndUpdate({ orderNumber }, { status }): the collection after
\* the update of the first order of that number
SetStatus(n, status) ==
    LET hit == CHOOSE i \in 1..Len(orders) :
                   /\ orders[i].orderNumber = n
                   /\ \A j \in 1..(i - 1) : orders[j].orderNumber # n
    IN [orders EXCEPT ![hit].status = status]

\* order.ts:371-423, part_001:453-495, order.ts:865-908; status is
\* req.body.status as a Tok
updateOrder(h, user, text, status) ==
    LET orderNumber == parseIntStr(text, ParamRadix(h))
        q == [orderNumber |-> text, status |-> status]
        did == <<Op("Order", "findOneAndUpdate", "write",
                    <<CNum("orderNumber", "$eq", orderNumber.v)>>, <<>>, NoSort,
                    FALSE, 0, 0)>>
    IN IF status.k # "str" \/ status.t \notin allowedStatuses
       THEN /\ Answered(h, user, q, 400, "BadRequestError", <<>>, NoOps)
            /\ UNCHANGED store
       ELSE IF orderNumber.nan \/ orderNumber.v <= 0
       THEN /\ Answered(h, user, q, 400, "BadRequestError", <<>>, NoOps)
            /\ UNCHANGED store
       ELSE IF FindByNumber(orderNumber.v) = <<>>
       THEN /\ Answered(h, user, q, 404, "NotFoundError", <<>>, did)
            /\ UNCHANGED store
       ELSE /\ orders' = SetStatus(orderNumber.v, status.t)
            /\ Answered(h, user, q, 200, "", Ids(FindByNumber(orderNumber.v)), did)
            /\ UNCHANGED <<tz, products, users, scan, price, disk, jar>>

\* order.ts:425-462, part_001:508-545, order.ts:910-935
deleteOrder(h, user, id) ==
    LET found == SelectSeq(orders, LAMBDA o : o.id = CastId(id))
    IN IF ~isMongoId(id)
       THEN /\ Answered(h, user, id, 400, "BadRequestError", <<>>, NoOps)
            /\ UNCHANGED store
       ELSE IF found = <<>>
       THEN /\ Answered(h, user, id, 404, "NotFoundError", <<>>,
                        <<Write("Order", "findByIdAndDelete", CastId(id))>>)
            /\ UNCHANGED store
       ELSE /\ orders' = SelectSeq(orders, LAMBDA o : o.id # CastId(id))
            /\ Answered(h, user, id, 200, "", Ids(found),
                        <<Write("Order", "findByIdAndDelete", CastId(id))>>)
            /\ UNCHANGED <<tz, products, users, scan, price, disk, jar>>

(***************************************************************************)
(* customers.ts: getCustomerById, updateCustomer, deleteCustomer.          *)
(***************************************************************************)
UserAt(id) == CHOOSE i \in 1..Len(users) : users[i].id = id

\* /^[^\s@]+@[^\s@]+\.[^\s@]+$/.test(text)
emailRegexTest(s) ==
    /\ \A i \in 1..Len(s) : ~IsWhite(s[i])
    /\ \E i \in 2..Len(s) :
          /\ s[i] = "@"
          /\ \A j \in 1..Len(s) : s[j] = "@" => j = i
          /\ \E k \in (i + 2)..(Len(s) - 1) : s[k] = "."

\* customers.ts:208-246
getCustomerById(user, id) ==
    /\ IF NotAdmin(user)
       THEN Answered("getCustomerById", user, id, 401, "UnauthorizedError", <<>>, NoOps)
       ELSE IF ~isMongoId(id)
       THEN Answered("getCustomerById", user, id, 500, "CastError", <<>>, NoOps)
       ELSE IF ~HasUser(CastId(id))
       THEN Answered("getCustomerById", user, id, 404, "NotFoundError", <<>>,
                     <<Op("User", "findById", "lookup", <<CId("_id", CastId(id))>>,
                          <<>>, NoSort, FALSE, 0, 0)>>)
       ELSE Answered("getCustomerById", user, id, 200, "", <<CastId(id)>>,
                     <<Op("User", "findById", "lookup", <<CId("_id", CastId(id))>>,
                          <<>>, NoSort, FALSE, 0, 0)>>)
    /\ UNCHANGED store

\* the unique index on email (E11000, products.ts:306): another user has the
\* address the update sets
EmailTaken(id, email) ==
    /\ email.k = "str"
    /\ \E i \in 1..Len(users) : users[i].id # id /\ users[i].email = email.s

\* the fields of a body that updateCustomer copies to updateData:
\* name, email, roles, each undefined (absent) or a value
Patch(doc, body) ==
    [doc EXCEPT !.name = IF body.name.k = "absent" THEN @ ELSE body.name.s,
                !.email = IF body.email.k = "absent" THEN @ ELSE body.email.s,
                !.roles = IF body.roles.present THEN body.roles.v ELSE @]

\* customers.ts:249-309; name and email are non-empty strings or undefined
updateCustomer(user, id, body) ==
    LET q == [id |-> id, body |-> body]
        did == <<Write("User", "findByIdAndUpdate", CastId(id))>>
    IN IF NotAdmin(user)
       THEN /\ Answered("updateCustomer", user, q, 401, "UnauthorizedError", <<>>, NoOps)
            /\ UNCHANGED store
       ELSE IF Truthy(body.email) /\ ~emailRegexTest(body.email.s)
       THEN /\ Answered("updateCustomer", user, q, 400, "BadRequestError", <<>>, NoOps)
            /\ UNCHANGED store
       ELSE IF ~isMongoId(id)
       THEN /\ Answered("updateCustomer", user, q, 500, "CastError", <<>>, NoOps)
            /\ UNCHANGED store
       ELSE IF ~HasUser(CastId(id))
       THEN /\ Answered("updateCustomer", user, q, 404, "NotFoundError", <<>>, did)
            /\ UNCHANGED store
       ELSE IF EmailTaken(CastId(id), body.email)
       THEN /\ Answered("updateCustomer", user, q, 500, "MongoServerError", <<>>, did)
            /\ UNCHANGED store
       ELSE /\ users' = [users EXCEPT ![UserAt(CastId(id))] = Patch(@, body)]
            /\ Answered("updateCustomer", user, q, 200, "", <<CastId(id)>>, did)
            /\ UNCHANGED <<tz, products, orders, scan, price, disk, jar>>

\* a variant of SameText: texts that differ only in the case of their
\* letters are taken for the same
SameText_AnyCase(a, b) == a.hex = b.hex /\ a.n = b.n

\* a === b for two texts
SameText(a, b) == a = b

\* customers.ts:312-342
deleteCustomer(user, id) ==
    LET did == <<Write("User", "findByIdAndDelete", CastId(id))>>
    IN IF NotAdmin(user)
       THEN /\ Answered("deleteCustomer", user, id, 401, "UnauthorizedError", <<>>, NoOps)
            /\ UNCHANGED store
       ELSE IF SameText(id, toString(user.id))
       THEN /\ Answered("deleteCustomer", user, id, 400, "BadRequestError", <<>>, NoOps)
            /\ UNCHANGED store
       ELSE IF ~isMongoId(id)
       THEN /\ Answered("deleteCustomer", user, id, 500, "CastError", <<>>, NoOps)
            /\ UNCHANGED store
       ELSE IF ~HasUser(CastId(id))
       THEN /\ Answered("deleteCustomer", user, id, 404, "NotFoundError", <<>>, did)
            /\ UNCHANGED store
       ELSE /\ users' = SelectSeq(users, LAMBDA u : u.id # CastId(id))
            /\ Answered("deleteCustomer", user, id, 200, "", <<CastId(id)>>, did)
            /\ UNCHANGED <<tz, products, orders, scan, price, disk, jar>>

(***************************************************************************)
(* One order by its number (SpecByNumber).                                 *)
(***************************************************************************)
\* longest orderNumber path parameter enumerated
MaxNumberLen == 3

\* the texts sent as :orderNumber
NumberTexts == Texts(MaxNumberLen) \cup {<<"2">>, <<"3">>, <<"9">>}

\* the callers the auth middleware lets through: their user document exists
SignedIn == {u \in Callers : u.present /\ HasUser(u.id)}

\* the texts sent as :id of a customer, as the server writes ids
CustomerIdTexts == {NotAnId} \cup {IdText(n, "lower") : n \in 1..3}

CallGetOrderByNumber ==
    /\ pc = "idle"
    /\ \E h \in ByNumberHandlers : \E user \in SignedIn : \E text \in NumberTexts :
          getOrderByNumber(h, user, text)

CallGetOrderCurrentUserByNumber ==
    /\ pc = "idle"
    /\ \E h \in OwnByNumberHandlers : \E user \in SignedIn : \E text \in NumberTexts :
          getOrderCurrentUserByNumber(h, user, text)

CallDeleteCustomer ==
    /\ pc = "idle"
    /\ \E user \in SignedIn : \E id \in CustomerIdTexts : deleteCustomer(user, id)

NextByNumber ==
    \/ CallGetOrderByNumber
    \/ CallGetOrderCurrentUserByNumber
    \/ CallDeleteCustomer
    \/ Return

SpecByNumber == InitWith({0}, {2}) /\ [][NextByNumber]_vars

\* C22: getOrderCurrentUserByNumber answers 200 with the order of the number
\* asked for when that order's customer is the caller, and otherwise, whether
\* the order belongs to somebody else or does not exist, the same NotFound
\* error.
C22_ForeignOrderLooksAbsent ==
    (/\ pc = "done"
     /\ req.h \in OwnByNumberHandlers
     /\ resp.status # 400)
        => LET mine == SelectSeq(orders, LAMBDA o :
                           /\ Num(o.orderNumber) = parseIntStr(req.q, ParamRadix(req.h))
                           /\ o.customer = req.user.id)
           IN IF mine # <<>>
              THEN resp.status = 200 /\ resp.items = Ids(mine)
              ELSE resp.status = 404 /\ resp.error = "NotFoundError"

(***************************************************************************)
(* The page and the total of one response.                                 *)
(***************************************************************************)
\* the handlers the arithmetic of the page is stated of
PagedOwnHandlers == CurrentUserHandlers \cup {"getProducts"}

\* items.length = min(pageSize, max(0, total - (currentPage - 1) * pageSize))
PageFits(r) ==
    Len(r.items) = Min(r.pageSize, Max(0, r.total - (r.currentPage - 1) * r.pageSize))

OrderIdTexts ==
    {NotAnId} \cup {IdText(n, f) : n \in 1..MaxOrders, f \in {"lower", "upper"}}

\* req.body.status: undefined, a listed status, an unlisted one, an array
StatusBodies == {NoTok, Tok("shipped"), Tok("cancelled"), Tok("paid"), TokArr("shipped")}

CallUpdateOrder ==
    /\ pc = "idle"
    /\ \E h \in UpdateOrderHandlers : \E text \in NumberTexts : \E status \in StatusBodies :
          updateOrder(h, AdminUser, text, status)

CallDeleteOrder ==
    /\ pc = "idle"
    /\ \E h \in DeleteOrderHandlers : \E id \in OrderIdTexts :
          deleteOrder(h, AdminUser, id)

NextOneOrder ==
    \/ CallGetOrderByNumber
    \/ CallGetOrderCurrentUserByNumber
    \/ CallUpdateOrder
    \/ CallDeleteOrder
    \/ Return

SpecOneOrder == InitWith({0}, {2}) /\ [][NextOneOrder]_vars

\* the :orderNumber of the request in flight
NumberAsked == IF req.h \in UpdateOrderHandlers THEN req.q.orderNumber ELSE req.q

\* the text parses in base 10 to an integer greater than 0
ParsesPositive(text) == ~parseIntStr(text, 10).nan /\ parseIntStr(text, 10).v > 0

Refused == resp.status = 400 /\ resp.error = "BadRequestError" /\ ops = NoOps

\* C24: getOrderByNumber, getOrderCurrentUserByNumber and updateOrder answer
\* an orderNumber that does not parse in base 10 to an integer greater than 0
\* with BadRequest and without any datastore operation; deleteOrder does the
\* same with an id that is no ObjectId; a valid number or id of no order is
\* answered NotFound.
C24_BadIdentifierRefused ==
    [][(pc = "idle" /\ pc' = "done") =>
        /\ req'.h \in ByNumberHandlers \cup OwnByNumberHandlers \cup UpdateOrderHandlers
              => /\ ~ParsesPositive(NumberAsked') => Refused'
                 /\ (/\ ParsesPositive(NumberAsked')
                     /\ \A i \in 1..Len(orders) :
                            Num(orders[i].orderNumber) # parseIntStr(NumberAsked', 10)
                     /\ req'.h \in UpdateOrderHandlers =>
                            (req'.q.status.k = "str" /\ req'.q.status.t \in allowedStatuses))
                       => resp'.status = 404 /\ resp'.error = "NotFoundError"
        /\ req'.h \in DeleteOrderHandlers
              => /\ ~isMongoId(req'.q) => Refused'
                 /\ (/\ isMongoId(req'.q)
                     /\ \A i \in 1..Len(orders) : orders[i].id # CastId(req'.q))
                       => resp'.status = 404 /\ resp'.error = "NotFoundError"]_vars

\* C25: updateOrder with a body status that is not one of the five listed
\* values answers BadRequest and changes no order; a successful updateOrder
\* changes the status field of the one order of the number the handler read
\* from the path, and no other order, field or collection.
C25_OnlyStatusOfOneOrder ==
    [][(pc = "idle" /\ pc' = "done" /\ req'.h \in UpdateOrderHandlers) =>
        LET n == parseIntStr(req'.q.orderNumber, ParamRadix(req'.h))
            status == req'.q.status
        IN /\ (status.k # "str" \/ status.t \notin allowedStatuses)
                 => resp'.status = 400 /\ resp'.error = "BadRequestError"
           /\ resp'.status # 200 => orders' = orders
           /\ resp'.status = 200 =>
                 \E i \in 1..Len(orders) :
                    /\ Num(orders[i].orderNumber) = n
                    /\ orders' = [orders EXCEPT ![i].status = status.t]
           /\ UNCHANGED <<products, price, users, disk, jar>>]_vars

\* updateOrder of order.ts:371 set order 2, and only order 2, to cancelled
C25_Witness ==
    /\ pc = "done"
    /\ req.h = "updateOrder"
    /\ req.q.orderNumber = <<"2">>
    /\ req.q.status = Tok("cancelled")
    /\ resp.status = 200
    /\ resp.items = <<2>>
    /\ orders = [InitOrders EXCEPT ![2].status = "cancelled"]

(***************************************************************************)
(* createOrder (order.ts:274-369, part_001:357-450, order.ts:791-862).     *)
(***************************************************************************)
CreateOrderHandlers == {"createOrder", "createOrder_part001", "createOrder_791"}

IsDecDigit(c) == DigitVal(c, DecDigits) >= 0

\* phone.replace(/\D/g, '')
DigitsOf(s) == SelectSeq(s, IsDecDigit)
\* phone.replace(/\s/g, '')
Unspaced(s) == SelectSeq(s, LAMBDA c : ~IsWhite(c))

\* the phone checks of the three versions: order.ts:288-297 (at most 30
\* characters, 10 to 15 digits), part_001:377-381 (/^[\d\s\-\+\(\)]{10,20}$/
\* and 10 characters without the spaces), order.ts:811-814
\* (/^\+?[1-9]\d{1,14}$/ on the phone without its spaces)
phoneOk(h, phone) ==
    CASE h = "createOrder" ->
           Len(phone) <= 30 /\ Len(DigitsOf(phone)) >= 10 /\ Len(DigitsOf(phone)) <= 15
      [] h = "createOrder_part001" ->
           /\ Len(phone) >= 10
           /\ Len(phone) <= 20
           /\ \A i \in 1..Len(phone) :
                 IsDecDigit(phone[i]) \/ phone[i] \in {" ", "-", "+", "(", ")"}
           /\ Len(Unspaced(phone)) >= 10
      [] OTHER ->
           LET t == Unspaced(phone)
               u == IF t # <<>> /\ t[1] = "+" THEN Tail(t) ELSE t
           IN /\ Len(u) >= 2
              /\ Len(u) <= 15
              /\ u[1] # "0"
              /\ \A i \in 1..Len(u) : IsDecDigit(u[i])

RECURSIVE SumPrices(_)
\* basket.reduce((a, c) => a + c.price, 0) over the products of these ids
SumPrices(ids) == IF ids = <<>> THEN 0 ELSE price[ids[1]].v + SumPrices(Tail(ids))

\* a product Product.find returns and the handler lets into the basket:
\* order.ts:315-318 and part_001:396-399 ask for price: { $ne: null, $gt: 0 },
\* order.ts:824-836 reads by _id and throws on price === null
Sellable(h, id) ==
    /\ HasProduct(id)
    /\ ~price[id].null
    /\ h # "createOrder_791" => price[id].v > 0

\* the products of the collection whose _id is among ids ($in)
FoundAmong(ids) == SelectSeq(products, LAMBDA p : \E i \in 1..Len(ids) : CastId(ids[i]) = p)

\* body: address and payment (truthy or not), phone and email (Absent or a
\* Str), items (absent, an object, or an array of id texts), total: the
\* amount the client states
createOrder(h, user, body) ==
    LET texts == body.items.ids
        found == FoundAmong(texts)
        id == NextId(Range(Ids(orders)))
        did == <<Op("Product", "find", "lookup", <<>>, <<>>, NoSort, FALSE, 0, 0)>>
    IN IF \/ ~body.address \/ ~body.payment \/ ~Truthy(body.phone)
          \/ ~Truthy(body.email) \/ body.items.k # "arr"
       THEN /\ Answered(h, user, body, 400, "BadRequestError", <<>>, NoOps)
            /\ UNCHANGED store
       ELSE IF ~emailRegexTest(body.email.s) \/ ~phoneOk(h, body.phone.s) \/ Len(texts) > 20
       THEN /\ Answered(h, user, body, 400, "BadRequestError", <<>>, NoOps)
            /\ UNCHANGED store
       ELSE IF \E i \in 1..Len(texts) : ~isMongoId(texts[i])
       THEN /\ Answered(h, user, body,
                        IF h = "createOrder_791" THEN 500 ELSE 400,
                        IF h = "createOrder_791" THEN "BSONError" ELSE "BadRequestError",
                        <<>>, NoOps)
            /\ UNCHANGED store
       ELSE IF h = "createOrder_791"
               /\ Len(found) = Len(texts)
               /\ \E i \in 1..Len(found) : price[found[i]].null
       THEN /\ Answered(h, user, body, 400, "BadRequestError", <<>>, did)
            /\ UNCHANGED store
       ELSE IF Len(SelectSeq(found, LAMBDA p : Sellable(h, p))) # Len(texts)
       THEN /\ Answered(h, user, body, 400, "BadRequestError", <<>>, did)
            /\ UNCHANGED store
       ELSE /\ Len(orders) < MaxOrders
            /\ orders' = Append(orders,
                                [NewOrder(id) EXCEPT !.totalAmount = SumPrices(found),
                                                     !.customer = user.id,
                                                     !.products = [i \in 1..Len(texts) |->
                                                                      CastId(texts[i])]])
            /\ Answered(h, user, body, 200, "", <<id>>,
                        did \o <<Write("Order", "save", id)>>)
            /\ UNCHANGED <<tz, products, users, scan, price, disk, jar>>

Phones == {Absent, Str(<<"+","7","9","0","0","1","2","3","4","5","6","7">>),
           Str(<<"8","(","9","0","0",")","1","2","3","4","5","6","7">>),
           Str(<<"1","2","3","4","5">>), Str(<<"a","b","c">>)}

Emails == {Absent, Str(<<"c","@","x",".","y","z">>), Str(<<"c","@","x">>)}

NoItems == [k |-> "absent", ids |-> <<>>]
NotAnArray == [k |-> "obj", ids |-> <<>>]
Items(ids) == [k |-> "arr", ids |-> ids]

ItemLists ==
    {NoItems, NotAnArray, Items(<<>>), Items(<<NotAnId>>),
     Items([i \in 1..21 |-> IdText(1, "lower")])}
    \cup {Items(<<IdText(a, "lower")>>) : a \in 1..(MaxCatalog + 1)}
    \cup {Items(<<IdText(a, "lower"), IdText(b, "upper")>>) : a, b \in 1..MaxCatalog}

OrderBodies ==
    [address : BOOLEAN, payment : BOOLEAN, phone : Phones, email : Emails,
     items : ItemLists, total : {0, 999}]

(***************************************************************************)
(* Placing an order (SpecCreateOrder).                                     *)
(***************************************************************************)
CallCreateOrder ==
    /\ pc = "idle"
    /\ \E h \in CreateOrderHandlers : \E user \in SignedIn : \E body \in OrderBodies :
          createOrder(h, user, body)

\* the administrator adds a product to the catalogue
CallAddProduct ==
    /\ pc = "idle"
    /\ \E p \in {Absent, JsNum(0), JsNum(5)} :
          createProduct(AdminUser, [title |-> TRUE, category |-> TRUE, price |-> p,
                                    image |-> 0])

NextCreateOrder == CallCreateOrder \/ CallAddProduct \/ Return

SpecCreateOrder == InitWith({0}, {2}) /\ [][NextCreateOrder]_vars

\* C26: createOrder saves an order only if address, payment, phone, email and
\* an items array are present, email and phone pass the validation, there are
\* at most 20 items, and every item is a different existing product whose
\* price is not null and greater than 0; the totalAmount saved is the sum of
\* the stored prices of those products, whatever the body says; when the
\* request is refused no order is created.
C26_OrderOnlyFromSellableProducts ==
    [][(pc = "idle" /\ pc' = "done" /\ req'.h \in CreateOrderHandlers) =>
        LET body == req'.q
            ids == [i \in 1..Len(body.items.ids) |-> CastId(body.items.ids[i])]
        IN IF resp'.status = 200
           THEN /\ body.address /\ body.payment
                /\ Truthy(body.phone) /\ Truthy(body.email)
                /\ body.items.k = "arr"
                /\ emailRegexTest(body.email.s)
                /\ phoneOk(req'.h, body.phone.s)
                /\ Len(ids) <= 20
                /\ \A i \in 1..Len(ids) :
                      /\ HasProduct(ids[i])
                      /\ ~price[ids[i]].null
                      /\ price[ids[i]].v > 0
                      /\ \A j \in 1..Len(ids) : ids[j] = ids[i] => j = i
                /\ Len(orders') = Len(orders) + 1
                /\ SubSeq(orders', 1, Len(orders)) = orders
                /\ orders'[Len(orders')].totalAmount = SumPrices(ids)
                /\ orders'[Len(orders')].products = ids
           ELSE orders' = orders]_vars

(***************************************************************************)
(* The auth controller (products.ts:223-485): register, login, logout,     *)
(* refreshAccessToken, updateCurrentUser.                                  *)
(***************************************************************************)
\* most refresh tokens the server signs in one behaviour
MaxTokens == 3
\* most documents of the User collection
MaxUsers == 3

\* the refreshToken cookie of a request: none, a token the server signed for
\* user sub (n tells the tokens of one user apart: they are signed at
\* different times), or a text that jwt.verify turns down
NoCookie == [cookie |-> FALSE, signed |-> FALSE, sub |-> 0, n |-> 0]
Token(sub, n) == [cookie |-> TRUE, signed |-> TRUE, sub |-> sub, n |-> n]
Forged == [cookie |-> TRUE, signed |-> FALSE, sub |-> 1, n |-> 0]

\* crypto.createHmac('sha256', secret).update(token).digest('hex')
Hmac(token) == [hmac |-> <<token.sub, token.n>>]

\* the hash the User model stores for a password (bcrypt; the model is not in
\* src/)
HashOf(password) == CASE password = <<"s","e","c","r","e","t","1">> -> "hash1"
                      [] password = <<"s","e","c","r","e","t","2">> -> "hash2"
                      [] password = <<"s","e","c","r","e","t","3">> -> "hash3"
                      [] OTHER -> "hash0"

RECURSIVE escape(_)
\* validator.escape: & < > " ' / \ ` become HTML entities
escape(s) ==
    IF s = <<>> THEN <<>>
    ELSE (CASE s[1] = "&" -> <<"&","a","m","p",";">>
            [] s[1] = "<" -> <<"&","l","t",";">>
            [] s[1] = ">" -> <<"&","g","t",";">>
            [] s[1] = "/" -> <<"&","#","x","2","F",";">>
            [] OTHER -> <<s[1]>>) \o escape(Tail(s))

\* String.prototype.trim
trim(s) == TrimRight(TrimLeft(s))

\* validator.isEmail with its defaults, for the addresses of letters, digits,
\* "." and "@" sent here: local@domain with a top-level domain of at least two
\* characters
isEmail(s) ==
    /\ emailRegexTest(s)
    /\ s[Len(s) - 1] # "."
    /\ \A i \in 1..Len(s) : s[i] \notin {"&", ";", "<", ">", "#"}

IndexOfUser(us, id) == CHOOSE i \in 1..Len(us) : us[i].id = id

\* products.ts:337-367: the error thrown, or the User collection after
\* user.save()
deleteRefreshTokenInUser(rfTkn) ==
    IF ~rfTkn.cookie THEN [error |-> "UnauthorizedError", users |-> users]
    ELSE IF ~rfTkn.signed THEN [error |-> "JsonWebTokenError", users |-> users]
    ELSE IF ~HasUser(rfTkn.sub) THEN [error |-> "UnauthorizedError", users |-> users]
    ELSE [error |-> "",
          users |-> [users EXCEPT ![UserAt(rfTkn.sub)].tokens = @ \ {Hmac(rfTkn)}]]

\* the token user.generateRefreshToken() signs next
FreshToken(sub) == Token(sub, NextId({t.n : t \in jar}))

\* user.generateRefreshToken() (models/user, not in src/): signs a token,
\* adds its HMAC to user.tokens and saves the user; the User collection after
generateRefreshToken(us, sub) ==
    [us EXCEPT ![IndexOfUser(us, sub)].tokens = @ \cup {Hmac(FreshToken(sub))}]

\* products.ts:386-413
refreshAccessToken(rfTkn) ==
    LET out == deleteRefreshTokenInUser(rfTkn)
    IN IF out.error # ""
       THEN /\ Answered("refreshAccessToken", NoUser, rfTkn, ErrorStatus(out.error),
                        out.error, <<>>, NoOps)
            /\ UNCHANGED store
       ELSE /\ Cardinality(jar) < MaxTokens
            /\ users' = generateRefreshToken(out.users, rfTkn.sub)
            /\ jar' = jar \cup {FreshToken(rfTkn.sub)}
            /\ Answered("refreshAccessToken", NoUser, rfTkn, 200, "",
                        <<FreshToken(rfTkn.sub).n>>,
                        <<Write("User", "save", rfTkn.sub), Write("User", "save", rfTkn.sub)>>)
            /\ UNCHANGED <<tz, products, orders, scan, price, disk>>

\* products.ts:369-384
logout(rfTkn) ==
    LET out == deleteRefreshTokenInUser(rfTkn)
    IN IF out.error # ""
       THEN /\ Answered("logout", NoUser, rfTkn, ErrorStatus(out.error), out.error,
                        <<>>, NoOps)
            /\ UNCHANGED store
       ELSE /\ users' = out.users
            /\ Answered("logout", NoUser, rfTkn, 200, "", <<>>,
                        <<Write("User", "save", rfTkn.sub)>>)
            /\ UNCHANGED <<tz, products, orders, scan, price, disk, jar>>

\* User.findUserByCredentials(email, password) (models/user, not in src/):
\* the users of that e-mail address whose password hash matches
ByCredentials(email, password) ==
    SelectSeq(users, LAMBDA u : u.email = email /\ u.password = HashOf(password))

\* products.ts:237-266; email and password are Absent or a Str
login(email, password) ==
    LET q == [email |-> email, password |-> password]
        found == ByCredentials(email.s, password.s)
    IN IF ~Truthy(email) \/ ~Truthy(password) \/ ~isEmail(email.s)
       THEN /\ Answered("login", NoUser, q, 400, "BadRequestError", <<>>, NoOps)
            /\ UNCHANGED store
       ELSE IF found = <<>>
       THEN /\ Answered("login", NoUser, q, 401, "UnauthorizedError", <<>>, NoOps)
            /\ UNCHANGED store
       ELSE /\ Cardinality(jar) < MaxTokens
            /\ users' = generateRefreshToken(users, found[1].id)
            /\ jar' = jar \cup {FreshToken(found[1].id)}
            /\ Answered("login", NoUser, q, 200, "", <<FreshToken(found[1].id).n>>,
                        <<Write("User", "save", found[1].id)>>)
            /\ UNCHANGED <<tz, products, orders, scan, price, disk>>

\* the document new User({ email, password, name }) saves
NewUser(id, email, password, name) ==
    [id |-> id, name |-> name, email |-> email, roles |-> {"customer"},
     totalAmount |-> 0, orderCount |-> 0, createdAt |-> [d |-> 50 + id, ms |-> 0],
     lastOrderDate |-> [d |-> 0, ms |-> 0], orders |-> <<>>,
     password |-> HashOf(password), tokens |-> {}]

\* products.ts:269-315; email, password and name are Absent or a Str
register(email, password, name) ==
    LET q == [email |-> email, password |-> password, name |-> name]
        id == NextId(Range(Ids(users)))
        saved == Append(users, NewUser(id, email.s, password.s, trim(escape(name.s))))
    IN IF \/ ~Truthy(email) \/ ~Truthy(password) \/ ~Truthy(name)
          \/ ~isEmail(email.s) \/ Len(password.s) < 6
       THEN /\ Answered("register", NoUser, q, 400, "BadRequestError", <<>>, NoOps)
            /\ UNCHANGED store
       ELSE IF \E i \in 1..Len(users) : users[i].email = email.s
       THEN /\ Answered("register", NoUser, q, 409, "ConflictError", <<>>,
                        <<Write("User", "save", id)>>)
            /\ UNCHANGED store
       ELSE /\ Len(users) < MaxUsers
            /\ Cardinality(jar) < MaxTokens
            /\ users' = generateRefreshToken(saved, id)
            /\ jar' = jar \cup {FreshToken(id)}
            /\ Answered("register", NoUser, q, 201, "", <<FreshToken(id).n>>,
                        <<Write("User", "save", id), Write("User", "save", id)>>)
            /\ UNCHANGED <<tz, products, orders, scan, price, disk>>

(***************************************************************************)
(* Refresh tokens (SpecTokens).                                            *)
(***************************************************************************)
Passwords == {Absent, Str(<<"s","e","c","r","e","t","3">>), Str(<<"s","e","c">>)}
Names == {Absent, Str(<<"C","y">>), Str(<<" ","<","b",">">>)}
NewEmails == {Absent, Str(<<"c","@","x",".","y","z">>), Str(<<"a","@","x",".","y">>),
              Str(<<"c","@","x">>)}

\* what a client can send as its refreshToken cookie
Cookies == jar \cup {NoCookie, Forged}

CallRegister ==
    /\ pc = "idle"
    /\ \E email \in NewEmails : \E password \in Passwords : \E name \in Names :
          register(email, password, name)

CallLogin ==
    /\ pc = "idle"
    /\ \E email \in NewEmails : \E password \in Passwords : login(email, password)

CallLogout ==
    /\ pc = "idle"
    /\ \E rfTkn \in Cookies : logout(rfTkn)

CallRefreshAccessToken ==
    /\ pc = "idle"
    /\ \E rfTkn \in Cookies : refreshAccessToken(rfTkn)

NextTokens == CallRegister \/ CallLogin \/ CallLogout \/ CallRefreshAccessToken \/ Return

SpecTokens == InitWith({0}, {2}) /\ [][NextTokens]_vars

\* C27: after any sequence of login, refreshAccessToken and logout,
\* refreshAccessToken succeeds only if the hash of the refresh token it is
\* sent is in the stored tokens of the user at that moment: a token that an
\* earlier refreshAccessToken consumed or a logout invalidated obtains no new
\* access token.
C27_SpentTokenRefused ==
    [][(/\ pc = "idle"
        /\ pc' = "done"
        /\ req'.h = "refreshAccessToken"
        /\ resp'.status = 200)
          => /\ HasUser(req'.q.sub)
             /\ Hmac(req'.q) \in users[UserAt(req'.q.sub)].tokens]_vars

(***************************************************************************)
(* updateCurrentUser (products.ts:436-475).                                *)
(***************************************************************************)
NoRoles == [present |-> FALSE, v |-> {}]
Roles(v) == [present |-> TRUE, v |-> v]

\* a faulty variant of allowedFields: roles is copied too
allowedFields_WithRoles(body) ==
    [name |-> IF body.name.k = "str" THEN Str(trim(escape(body.name.s))) ELSE body.name,
     email |-> IF body.email.k = "str" THEN Str(trim(escape(body.email.s)))
               ELSE body.email,
     roles |-> body.roles]

\* products.ts:443-460: updateData, the fields 'name' and 'email' of the
\* body, strings escaped and trimmed; no other field of the body is copied
allowedFields(body) ==
    [name |-> IF body.name.k = "str" THEN Str(trim(escape(body.name.s))) ELSE body.name,
     email |-> IF body.email.k = "str" THEN Str(trim(escape(body.email.s)))
               ELSE body.email,
     roles |-> NoRoles]

\* products.ts:436-475; name and email are undefined, a non-empty string or an
\* object (which mongoose cannot cast to a string); roles stands for the
\* fields of the body that are not allowed
updateCurrentUser(user, body) ==
    LET updateData == allowedFields(body)
        did == <<Write("User", "findByIdAndUpdate", user.id)>>
    IN IF updateData.email.k = "str" /\ ~isEmail(updateData.email.s)
       THEN /\ Answered("updateCurrentUser", user, body, 400, "BadRequestError", <<>>,
                        NoOps)
            /\ UNCHANGED store
       ELSE IF updateData.name.k = "obj" \/ updateData.email.k = "obj"
       THEN /\ Answered("updateCurrentUser", user, body, 500, "CastError", <<>>, NoOps)
            /\ UNCHANGED store
       ELSE IF ~HasUser(user.id)
       THEN /\ Answered("updateCurrentUser", user, body, 404, "NotFoundError", <<>>, did)
            /\ UNCHANGED store
       ELSE IF EmailTaken(user.id, updateData.email)
       THEN /\ Answered("updateCurrentUser", user, body, 500, "MongoServerError", <<>>,
                        did)
            /\ UNCHANGED store
       ELSE /\ users' = [users EXCEPT ![UserAt(user.id)] = Patch(@, updateData)]
            /\ Answered("updateCurrentUser", user, body, 200, "", <<user.id>>, did)
            /\ UNCHANGED <<tz, products, orders, scan, price, disk, jar>>

(***************************************************************************)
(* Profiles (SpecProfile).                                                 *)
(***************************************************************************)
ProfileBodies ==
    [name : {Absent, Obj, Str(<<"D","i">>), Str(<<" ","<","b",">">>)},
     email : {Absent, Obj, Str(<<"d","@","x",".","y","z">>), Str(<<"b","@","x",".","y">>),
              Str(<<"d","@","x">>)},
     roles : {NoRoles, Roles({"admin"})}]

\* somebody registers and holds a refresh token
CallSignUp ==
    /\ pc = "idle"
    /\ register(Str(<<"c","@","x",".","y","z">>), Str(<<"s","e","c","r","e","t","3">>),
                Str(<<"C","y">>))

CallUpdateCurrentUser ==
    /\ pc = "idle"
    /\ \E user \in {AdminUser, CustomerUser, FormerUser} : \E body \in ProfileBodies :
          updateCurrentUser(user, body)

CallUpdateCustomer ==
    /\ pc = "idle"
    /\ \E user \in Callers : \E id \in CustomerIdTexts : \E body \in ProfileBodies :
          /\ body.name.k # "obj" /\ body.email.k # "obj"
          /\ updateCustomer(user, id, body)

NextProfile == CallSignUp \/ CallUpdateCurrentUser \/ CallUpdateCustomer \/ Return

SpecProfile == InitWith({0}, {2}) /\ [][NextProfile]_vars

\* the user documents differ in the listed fields at most
SameBut(fields, before, after) ==
    \A f \in DOMAIN before : f \notin fields => after[f] = before[f]

\* C28: updateCurrentUser writes name and email only: whatever the body, the
\* caller's roles, password and tokens (and every other user) stay as they
\* were. updateCustomer writes name, email and roles only, and with an invalid
\* email in the body it updates no field of the target user.
C28_OnlyAllowedFieldsWritten ==
    [][(pc = "idle" /\ pc' = "done" /\ req'.h \in {"updateCurrentUser", "updateCustomer"}) =>
        LET own == req'.h = "updateCurrentUser"
            target == IF own THEN req'.user.id ELSE CastId(req'.q.id)
            body == IF own THEN req'.q ELSE req'.q.body
        IN /\ Len(users') = Len(users)
           /\ \A i \in 1..Len(users) :
                 /\ users[i].id # target => users'[i] = users[i]
                 /\ SameBut(IF own THEN {"name", "email"} ELSE {"name", "email", "roles"},
                            users[i], users'[i])
           /\ (~own /\ body.email.k = "str" /\ ~emailRegexTest(body.email.s))
                 => users' = users
           /\ UNCHANGED <<products, price, orders, disk, jar>>]_vars

\* user 3, who holds a refresh token, sent updateCurrentUser a body with a
\* name, an email and roles ['admin']: name (escaped) and email are written,
\* roles, password and tokens are as before
C28_Witness ==
    /\ pc = "done"
    /\ req.h = "updateCurrentUser"
    /\ req.user = FormerUser
    /\ req.q.roles = Roles({"admin"})
    /\ req.q.name = Str(<<" ","<","b",">">>)
    /\ resp.status = 200
    /\ Len(users) = 3
    /\ users[3].name = <<"&","l","t",";","b","&","g","t",";">>
    /\ users[3].email = <<"d","@","x",".","y","z">>
    /\ users[3].roles = {"customer"}
    /\ users[3].password = "hash3"
    /\ users[3].tokens # {}

(***************************************************************************)
(* Customers by id (SpecCustomers).                                        *)
(***************************************************************************)
\* the texts sent as :id of a customer, hexadecimal letters in either case
AnyCaseIdTexts == CustomerIdTexts \cup {IdText(n, "upper") : n \in 1..3}

CallGetCustomerById ==
    /\ pc = "idle"
    /\ \E user \in Callers : \E id \in AnyCaseIdTexts : getCustomerById(user, id)

CallDeleteCustomerById ==
    /\ pc = "idle"
    /\ \E user \in Callers : \E id \in AnyCaseIdTexts : deleteCustomer(user, id)

NextCustomers ==
    CallGetCustomerById \/ CallUpdateCustomer \/ CallDeleteCustomerById \/ Return

SpecCustomers == InitWith({0}, {2}) /\ [][NextCustomers]_vars

\* C29: deleteCustomer never removes the calling admin's own user record: with
\* the caller's id as :id it answers BadRequest and the users stay as they
\* were; getCustomerById, updateCustomer and deleteCustomer called by somebody
\* who is no admin are refused before any datastore operation.
C29_OwnRecordKept ==
    [][(pc = "idle" /\ pc' = "done"
          /\ req'.h \in {"getCustomerById", "updateCustomer", "deleteCustomer"}) =>
        LET user == req'.user
            id == IF req'.h = "updateCustomer" THEN req'.q.id ELSE req'.q
        IN /\ NotAdmin(user) =>
                 /\ resp'.status = 401
                 /\ ops' = NoOps
                 /\ UNCHANGED store
           /\ (req'.h = "deleteCustomer" /\ ~NotAdmin(user) /\ isMongoId(id)
                 /\ CastId(id) = user.id) =>
                 /\ resp'.status = 400
                 /\ resp'.error = "BadRequestError"
                 /\ users' = users]_vars

(***************************************************************************)
(* Uploads (SpecUpload).                                                   *)
(***************************************************************************)
CallUploadFile ==
    /\ pc = "idle"
    /\ \E h \in UploadHandlers : \E user \in Callers : \E file \in SentFiles :
          uploadFile(h, user, file)

\* a product is created from an uploaded image, which leaves public/temp
CallCreateWithImage ==
    /\ pc = "idle"
    /\ \E image \in disk.temp :
          createProduct(AdminUser, [title |-> TRUE, category |-> TRUE, price |-> JsNum(5),
                                    image |-> image])

NextUpload == CallUploadFile \/ CallCreateWithImage \/ Return

SpecUpload == InitWith({0}, {2}) /\ [][NextUpload]_vars

\* C30: uploadFile answers 201 only if a file is present, the MIME type looked
\* up from its original name (or, failing that, the reported mimetype) is one
\* of image/jpeg, image/png, image/gif, image/webp, and its size is at least
\* 2 KB and at most the maximum of the version; and when uploadFile rejects a
\* file the upload middleware has stored, the stored temp file is no longer on
\* disk when the response is sent.
C30_RejectedFileRemoved ==
    [][(pc = "idle" /\ pc' = "done" /\ req'.h \in UploadHandlers) =>
        LET file == req'.q
            fileMimeType == IF lookup(file.ext) # "" THEN lookup(file.ext)
                            ELSE file.mimetype
        IN /\ resp'.status = 201 =>
                 /\ file.present
                 /\ fileMimeType \in allowedMimeTypes
                 /\ file.size >= 2 * KB
                 /\ file.size <= maxFileSize(req'.h)
           /\ (resp'.status # 201 /\ fileFilter(file) = "stored") =>
                 disk'.temp = disk.temp]_vars

====
